---- MODULE Spec2Model ----
(***************************************************************************)
(* MedHub backend: the authentication core (register, login, logout, the   *)
(* cookie Auth Gate) and the ownership-scoped patient, visit and dashboard *)
(* handlers, as a state machine over the relational store.                 *)
(*                                                                         *)
(* Values of request fields and columns are strings.  A request field that *)
(* is missing is Undefined, an SQL NULL is Null.  A handler is an operator *)
(* from the store and the request to the set of its possible outcomes      *)
(* (more than one only where the store may order tied rows either way);    *)
(* the action of the handler picks one outcome, installs its store and     *)
(* records the request and the response in `last`.                         *)
(***************************************************************************)
EXTENDS Integers, Sequences, FiniteSets, TLC

VARIABLES
    users,      \* rows of table users
    patients,   \* rows of table patients
    visits,     \* rows of table visits
    nextUser,   \* number of users inserted so far (names the next uuid)
    nextPid,    \* AUTO_INCREMENT of patients.id
    nextVid,    \* AUTO_INCREMENT of visits.id
    now,        \* server clock, whole seconds (JWT NumericDate)
    jar,        \* jar[c]: the authorizationToken cookie held by client c
    regLog,     \* history: <<email, password>> of the registrations answered 201
    last,       \* the last request and its response
    calls       \* the requests in flight, each at its next db.execute

vars == <<users, patients, visits, nextUser, nextPid, nextVid, now, jar, regLog, last,
          calls>>
store == <<users, patients, visits>>

----------------------------------------------------------------------------
(* Bounds of the model *)

MaxPatients == 2        \* patients inserted in one behaviour
MaxVisits == 1          \* visits inserted in one behaviour
MaxTicks == 2           \* clock advances in one behaviour
ClockStep == 1800       \* seconds per clock advance

(* Program constants *)

TokenLifetime == 3600   \* expiresIn: "1h"
DefaultPage == 1
DefaultLimit == 10
RecentLimit == 5
WeeksLimit == 10

----------------------------------------------------------------------------
(* JavaScript and SQL values *)

Undefined == "<undefined>"
Null == "<null>"

\* !v of JavaScript for a string, undefined or null
Falsy(v) == v \in {Undefined, Null, ""}

\* v || null
OrNull(v) == IF Falsy(v) THEN Null ELSE v

Clients == {"c1", "c2"}
Emails == {"a@x.com", "b@x.com"}
Passwords == {"p1", "p2"}

tokenSecretKey == "TOKEN_SECRET_KEY"

----------------------------------------------------------------------------
(* Password Hasher and uuid generator *)

genSalt(n) == "salt-" \o ToString(n)

hashPassword(password, salt) == [plain |-> password, salt |-> salt]

comparePassword(password, storedHash) ==
    hashPassword(password, storedHash.salt) = storedHash

uuid(kind, n) == kind \o "-" \o ToString(n)

----------------------------------------------------------------------------
(* Session Token Codec *)

Mac(claims, key) == [data |-> claims, key |-> key]

\* jwt.sign(payload, key, {expiresIn}): iat and exp are added, then signed
JwtSign(payload, key, lifetime, at) ==
    LET claims == [firstName |-> payload.firstName, lastName |-> payload.lastName,
                   email |-> payload.email, uuid |-> payload.uuid,
                   iat |-> at, exp |-> at + lifetime]
    IN  [kind |-> "jwt", claims |-> claims, sig |-> Mac(claims, key)]

\* jwt.verify(token, key) returns the claims or throws
JwtVerifies(token, key, at) ==
    /\ token.kind = "jwt"
    /\ token.sig = Mac(token.claims, key)
    /\ at < token.claims.exp

generateToken_swapped(firstName, lastName, email, id, at) ==
    JwtSign([firstName |-> email, lastName |-> id, email |-> firstName, uuid |-> lastName],
            tokenSecretKey, TokenLifetime, at)

generateToken_twoHours(firstName, lastName, email, id, at) ==
    JwtSign([firstName |-> firstName, lastName |-> lastName, email |-> email, uuid |-> id],
            tokenSecretKey, 2 * TokenLifetime, at)

generateToken_halfHour(firstName, lastName, email, id, at) ==
    JwtSign([firstName |-> firstName, lastName |-> lastName, email |-> email, uuid |-> id],
            tokenSecretKey, TokenLifetime \div 2, at)

generateToken(firstName, lastName, email, id, at) ==
    JwtSign([firstName |-> firstName, lastName |-> lastName, email |-> email, uuid |-> id],
            tokenSecretKey, TokenLifetime, at)

\* Cookie values a request can carry
NoCookie == [kind |-> "absent"]
EmptyCookie == [kind |-> "empty"]
GarbageCookie == [kind |-> "garbage"]

\* a token whose uuid claim was rewritten without re-signing
Tamper(token, id) == [token EXCEPT !.claims.uuid = id]

----------------------------------------------------------------------------
(* Auth Gate *)

Rejected(status, message) ==
    [pass |-> FALSE, status |-> status, body |-> [message |-> message]]

verifyToken_noVerify(authCookie, at) ==
    IF authCookie.kind \in {"absent", "empty"}
    THEN Rejected(403, "You cannot access this resource")
    ELSE IF authCookie.kind = "jwt"
         THEN [pass |-> TRUE, tokenInfo |-> authCookie.claims]
         ELSE Rejected(401, "Provide valid authentication credentials.")

verifyToken_swappedStatus(authCookie, at) ==
    IF authCookie.kind \in {"absent", "empty"}
    THEN Rejected(401, "Provide valid authentication credentials.")
    ELSE IF JwtVerifies(authCookie, tokenSecretKey, at)
         THEN [pass |-> TRUE, tokenInfo |-> authCookie.claims]
         ELSE Rejected(403, "You cannot access this resource")

verifyToken(authCookie, at) ==
    IF authCookie.kind \in {"absent", "empty"}
    THEN Rejected(403, "You cannot access this resource")
    ELSE IF JwtVerifies(authCookie, tokenSecretKey, at)
         THEN [pass |-> TRUE, tokenInfo |-> authCookie.claims]
         ELSE Rejected(401, "Provide valid authentication credentials.")

----------------------------------------------------------------------------
(* Responses, outcomes and the query log *)

\* one db.execute call: its statement kind and, per table it touches, the value
\* its WHERE/ON clauses require of created_by (Null: no such condition)
Query(kind, reads) == [kind |-> kind, reads |-> reads]
On(table, owner) == [table |-> table, owner |-> owner]

\* what a handler leaves behind: the response and the tables after it
Outcome(status, body, U, P, V, queries, setCookie) ==
    [status |-> status, body |-> body,
     users |-> U, patients |-> P, visits |-> V,
     queries |-> queries, setCookie |-> setCookie]

\* the JSON body {message: m}
Msg(m) == [message |-> m]

\* a response of the gate: the handler never ran
GateOutcome(g, U, P, V) == Outcome(g.status, g.body, U, P, V, <<>>, NoCookie)

----------------------------------------------------------------------------
(* routes/users *)

RegisterBodies ==
    [firstName : {"Ann", Undefined}, lastName : {"Lee"}, email : Emails,
     password : {"p1", Undefined},
     repeatPassword : Passwords \cup {Undefined}]

LoginBodies == [email : Emails, password : Passwords]

\* POST /api/user/register
register(U, P, V, body, n) ==
    LET userId == uuid("user", n)
        salt == genSalt(n)
        params == {body.firstName, body.lastName, body.email}
        q == <<Query("insert", {On("users", Null)})>>
    IN  IF body.repeatPassword = Undefined
        THEN \* hashing a missing password rejects: caught, 500
             {Outcome(500, Msg("We encountered a problem. Retry in a few"), U, P, V, <<>>, NoCookie)}
        ELSE IF Undefined \in params
        THEN \* execute() rejects an undefined bind parameter: caught, 500
             {Outcome(500, Msg("We encountered a problem. Retry in a few"), U, P, V, <<>>, NoCookie)}
        ELSE IF \E u \in U : u.email = body.email
        THEN \* ER_DUP_ENTRY
             {Outcome(409, Msg("User with this email already exists. Retry using a different one"), U, P, V, q, NoCookie)}
        ELSE {Outcome(201, Msg("User Registered"),
                      U \cup {[uuid |-> userId, first_name |-> body.firstName,
                               last_name |-> body.lastName, email |-> body.email,
                               password_hash |-> hashPassword(body.repeatPassword, salt),
                               salt |-> salt]},
                      P, V, q, NoCookie)}

login_noPasswordCheck(U, P, V, body, at) ==
    LET found == {u \in U : u.email = body.email}
        q == <<Query("select", {On("users", Null)})>>
    IN  IF found = {}
        THEN {Outcome(404, Msg("User not found"), U, P, V, q, NoCookie)}
        ELSE LET user == CHOOSE u \in found : TRUE
             IN  {Outcome(200, Msg("Login successful"), U, P, V, q,
                          generateToken(user.first_name, user.last_name,
                                        user.email, user.uuid, at))}

\* POST /api/user/login
login(U, P, V, body, at) ==
    LET found == {u \in U : u.email = body.email}
        q == <<Query("select", {On("users", Null)})>>
    IN  IF found = {}
        THEN {Outcome(404, Msg("User not found"), U, P, V, q, NoCookie)}
        ELSE LET user == CHOOSE u \in found : TRUE
             IN  IF ~comparePassword(body.password, user.password_hash)
                 THEN {Outcome(403, Msg("Invalid credentials."), U, P, V, q, NoCookie)}
                 ELSE {Outcome(200, Msg("Login successful"), U, P, V, q,
                               generateToken(user.first_name, user.last_name,
                                             user.email, user.uuid, at))}

\* GET /api/user/check-token (behind the gate)
checkToken(U, P, V, tokenInfo) ==
    {Outcome(200, Msg("Logout successful"), U, P, V, <<>>, NoCookie)}

----------------------------------------------------------------------------
(* SQL helpers *)

\* the permutations of a finite set, as sequences
Perms(S) ==
    {f \in [1..Cardinality(S) -> S] : \A i, j \in 1..Cardinality(S) : i # j => f[i] # f[j]}

\* ORDER BY key DESC, key[r] being the sort key of row r: every order of the
\* rows the store may return (ties either way)
RECURSIVE OrderByDesc(_, _)
OrderByDesc(S, key) ==
    IF S = {}
    THEN {<<>>}
    ELSE LET top == {r \in S : \A s \in S : key[r] >= key[s]}
         IN  UNION {{<<r>> \o rest : rest \in OrderByDesc(S \ {r}, key)} : r \in top}

\* LIMIT n OFFSET o
LimitOffset(seq, n, o) ==
    SubSeq(seq, o + 1, IF o + n < Len(seq) THEN o + n ELSE Len(seq))

\* value LIKE '%search%'
Like(value, search) ==
    /\ value # Null
    /\ \E i \in 1..(Len(value) - Len(search) + 1) :
           SubSeq(value, i, i + Len(search) - 1) = search

\* calendar of the dates the model uses: day number within 2025 and ISO week
\* ('%x-W%v'); 2025-01-06 is a Monday, the other dates are Wednesdays
Dates ==
    {"2025-01-06", "2025-01-08", "2025-01-15", "2025-01-22", "2025-01-29",
     "2025-02-05", "2025-02-12", "2025-02-19", "2025-02-26", "2025-03-05",
     "2025-03-12", "2025-03-19"}

DayOf(d) ==
    CASE d = "2025-01-06" -> 6
      [] d = "2025-01-08" -> 8
      [] d = "2025-01-15" -> 15
      [] d = "2025-01-22" -> 22
      [] d = "2025-01-29" -> 29
      [] d = "2025-02-05" -> 36
      [] d = "2025-02-12" -> 43
      [] d = "2025-02-19" -> 50
      [] d = "2025-02-26" -> 57
      [] d = "2025-03-05" -> 64
      [] d = "2025-03-12" -> 71
      [] d = "2025-03-19" -> 78
      [] OTHER -> 0

WeekOf(d) ==
    CASE d = "2025-01-06" -> "2025-W02"
      [] d = "2025-01-08" -> "2025-W02"
      [] d = "2025-01-15" -> "2025-W03"
      [] d = "2025-01-22" -> "2025-W04"
      [] d = "2025-01-29" -> "2025-W05"
      [] d = "2025-02-05" -> "2025-W06"
      [] d = "2025-02-12" -> "2025-W07"
      [] d = "2025-02-19" -> "2025-W08"
      [] d = "2025-02-26" -> "2025-W09"
      [] d = "2025-03-05" -> "2025-W10"
      [] d = "2025-03-12" -> "2025-W11"
      [] d = "2025-03-19" -> "2025-W12"
      [] OTHER -> Null

\* the unique index on patients.id_number: would inserting or setting idNumber
\* on the row with this uuid collide with another row?
DupIdNumber(P, idNumber, selfUuid) ==
    /\ idNumber # Null
    /\ \E p \in P : p.id_number = idNumber /\ p.uuid # selfUuid

----------------------------------------------------------------------------
(* routes/patients *)

Names == {"Ann", "Bob"}
IdNumbers == {"id1", "id2"}

PatientBodies ==
    [name : Names \cup {Undefined}, idNumber : IdNumbers \cup {Undefined},
     date_of_birth : {"1990-05-21"}, gender : {"F", ""}, contact : {"0712", Undefined}]

NestedVisitBodies ==
    [date : {"2025-01-06", "2025-01-15", Undefined}, diagnosis : {"flu", Undefined},
     prescribed_medications : {"rx"}, notes : {Undefined}]

newPatient_conflictAs500(U, P, V, createdBy, body, n) ==
    LET patientId == uuid("patient", n)
        q == <<Query("insert", {On("patients", createdBy)})>>
    IN  IF Falsy(body.name) \/ Falsy(body.idNumber) \/ Falsy(body.date_of_birth)
           \/ Falsy(body.gender) \/ Falsy(body.contact)
        THEN {Outcome(400, Msg("Missing fields"), U, P, V, <<>>, NoCookie)}
        ELSE IF DupIdNumber(P, body.idNumber, patientId)
        THEN {Outcome(500, Msg("We encountered a problem. Retry in a few"), U, P, V, q, NoCookie)}
        ELSE {Outcome(201, Msg("Patient registered."), U,
                      P \cup {[id |-> n, uuid |-> patientId, name |-> body.name,
                               id_number |-> body.idNumber,
                               date_of_birth |-> body.date_of_birth,
                               gender |-> body.gender, contact |-> body.contact,
                               created_by |-> createdBy]},
                      V, q, NoCookie)}

newPatient_fixedUuid(U, P, V, createdBy, body, n) ==
    LET patientId == uuid("patient", 1)
        q == <<Query("insert", {On("patients", createdBy)})>>
    IN  IF Falsy(body.name) \/ Falsy(body.idNumber) \/ Falsy(body.date_of_birth)
           \/ Falsy(body.gender) \/ Falsy(body.contact)
        THEN {Outcome(400, Msg("Missing fields"), U, P, V, <<>>, NoCookie)}
        ELSE IF DupIdNumber(P, body.idNumber, patientId)
        THEN {Outcome(409, Msg("User with this email or ID already exists. Retry using a different one"), U, P, V, q, NoCookie)}
        ELSE {Outcome(201, Msg("Patient registered."), U,
                      P \cup {[id |-> n, uuid |-> patientId, name |-> body.name,
                               id_number |-> body.idNumber,
                               date_of_birth |-> body.date_of_birth,
                               gender |-> body.gender, contact |-> body.contact,
                               created_by |-> createdBy]},
                      V, q, NoCookie)}

\* POST /api/patients/new-patient
newPatient(U, P, V, createdBy, body, n) ==
    LET patientId == uuid("patient", n)
        q == <<Query("insert", {On("patients", createdBy)})>>
    IN  IF Falsy(body.name) \/ Falsy(body.idNumber) \/ Falsy(body.date_of_birth)
           \/ Falsy(body.gender) \/ Falsy(body.contact)
        THEN {Outcome(400, Msg("Missing fields"), U, P, V, <<>>, NoCookie)}
        ELSE IF DupIdNumber(P, body.idNumber, patientId)
        THEN {Outcome(409, Msg("User with this email or ID already exists. Retry using a different one"), U, P, V, q, NoCookie)}
        ELSE {Outcome(201, Msg("Patient registered."), U,
                      P \cup {[id |-> n, uuid |-> patientId, name |-> body.name,
                               id_number |-> body.idNumber,
                               date_of_birth |-> body.date_of_birth,
                               gender |-> body.gender, contact |-> body.contact,
                               created_by |-> createdBy]},
                      V, q, NoCookie)}

\* Number(x) of a query-string value; NaN is reported as not numeric
IsNumeral(x) == x \in {"-1", "0", "1", "2", "3"}

NumberOf(x) ==
    CASE x = "-1" -> -1
      [] x = "0" -> 0
      [] x = "1" -> 1
      [] x = "2" -> 2
      [] x = "3" -> 3
      [] OTHER -> 0

\* Number(x) || d
NumberOr(x, d) == IF IsNumeral(x) /\ NumberOf(x) # 0 THEN NumberOf(x) ELSE d

\* x || ""
OrEmpty(x) == IF Falsy(x) THEN "" ELSE x

PatientId(p) == p.id

\* GET /api/patients?page&limit&search
listPatients(U, P, V, createdBy, query) ==
    LET page == NumberOr(query.page, DefaultPage)
        limit == NumberOr(query.limit, DefaultLimit)
        search == OrEmpty(query.search)
        offset == (page - 1) * limit
        matching == {p \in P : /\ p.created_by = createdBy
                               /\ (Like(p.name, search) \/ Like(p.id_number, search))}
        total == Cardinality(matching)
        item(p) == [key |-> p.id, id |-> p.id, name |-> p.name, idNumber |-> p.id_number,
                    gender |-> p.gender, contact |-> p.contact, uuid |-> p.uuid]
        q == <<Query("select", {On("patients", createdBy)}),
               Query("select", {On("patients", createdBy)})>>
    IN  IF page <= 0 \/ limit <= 0
        THEN {Outcome(400, Msg("Invalid page or limit"), U, P, V, <<>>, NoCookie)}
        ELSE {Outcome(200,
                      [items |-> LET rows == LimitOffset(ordered, limit, offset)
                                 IN  [i \in 1..Len(rows) |-> item(rows[i])],
                       total |-> total],
                      U, P, V, q, NoCookie) : ordered \in OrderByDesc(matching, [p \in matching |-> PatientId(p)])}

VisitDay(v) == DayOf(v.visit_date)

getPatient_noOwner(U, P, V, createdBy, id) ==
    LET found == {p \in P : p.uuid = id}
        q == <<Query("select", {On("patients", Null), On("visits", Null)})>>
    IN  IF found = {}
        THEN {Outcome(404, Msg("Patient not found"), U, P, V, q, NoCookie)}
        ELSE LET p == CHOOSE x \in found : TRUE
             IN  {Outcome(200,
                          [uuid |-> p.uuid, name |-> p.name, id_number |-> p.id_number,
                           gender |-> p.gender, contact |-> p.contact,
                           date_of_birth |-> p.date_of_birth, visits |-> <<>>],
                          U, P, V, q, NoCookie)}

getPatient_ascending(U, P, V, createdBy, id) ==
    LET found == {p \in P : p.uuid = id /\ p.created_by = createdBy}
        q == <<Query("select", {On("patients", createdBy), On("visits", createdBy)})>>
    IN  IF found = {}
        THEN {Outcome(404, Msg("Patient not found"), U, P, V, q, NoCookie)}
        ELSE LET p == CHOOSE x \in found : TRUE
                 joined == {v \in V : v.patient_id = p.uuid /\ v.created_by = p.created_by}
                 visit(v) == [uuid |-> v.uuid, date |-> v.visit_date,
                              diagnosis |-> v.diagnosis,
                              prescribed_medications |-> v.prescribed_medications,
                              notes |-> v.notes]
             IN  {Outcome(200,
                          [uuid |-> p.uuid, name |-> p.name, id_number |-> p.id_number,
                           gender |-> p.gender, contact |-> p.contact,
                           date_of_birth |-> p.date_of_birth,
                           visits |-> [i \in 1..Len(ordered) |-> visit(ordered[Len(ordered) + 1 - i])]],
                          U, P, V, q, NoCookie) : ordered \in OrderByDesc(joined, [v \in joined |-> VisitDay(v)])}

\* GET /api/patients/:uuid
getPatient(U, P, V, createdBy, id) ==
    LET found == {p \in P : p.uuid = id /\ p.created_by = createdBy}
        q == <<Query("select", {On("patients", createdBy), On("visits", createdBy)})>>
    IN  IF found = {}
        THEN {Outcome(404, Msg("Patient not found"), U, P, V, q, NoCookie)}
        ELSE LET p == CHOOSE x \in found : TRUE
                 joined == {v \in V : v.patient_id = p.uuid /\ v.created_by = p.created_by}
                 visit(v) == [uuid |-> v.uuid, date |-> v.visit_date,
                              diagnosis |-> v.diagnosis,
                              prescribed_medications |-> v.prescribed_medications,
                              notes |-> v.notes]
             IN  {Outcome(200,
                          [uuid |-> p.uuid, name |-> p.name, id_number |-> p.id_number,
                           gender |-> p.gender, contact |-> p.contact,
                           date_of_birth |-> p.date_of_birth,
                           visits |-> [i \in 1..Len(ordered) |-> visit(ordered[i])]],
                          U, P, V, q, NoCookie) : ordered \in OrderByDesc(joined, [v \in joined |-> VisitDay(v)])}

putPatient_noOwner(U, P, V, createdBy, id, body) ==
    LET found == {p \in P : p.uuid = id}
        check == Query("select", {On("patients", createdBy)})
        update == Query("update", {On("patients", createdBy)})
        idNumber == OrNull(body.idNumber)
        P2 == {IF p.uuid = id
               THEN [p EXCEPT !.name = body.name, !.id_number = idNumber,
                              !.date_of_birth = body.date_of_birth,
                              !.gender = body.gender, !.contact = OrNull(body.contact)]
               ELSE p : p \in P}
        updatedRows == {p \in P2 : p.uuid = id}
        echo(p) == [uuid |-> p.uuid, name |-> p.name, id_number |-> p.id_number,
                    date_of_birth |-> p.date_of_birth, gender |-> p.gender,
                    contact |-> p.contact, created_by |-> p.created_by]
    IN  IF Falsy(body.name) \/ Falsy(body.gender) \/ Falsy(body.date_of_birth)
        THEN {Outcome(400, Msg("Name, gender, and date_of_birth are required"),
                      U, P, V, <<>>, NoCookie)}
        ELSE IF found = {}
        THEN {Outcome(404, Msg("Patient not found"), U, P, V, <<check>>, NoCookie)}
        ELSE IF DupIdNumber(P, idNumber, id)
        THEN \* ER_DUP_ENTRY lands in the generic catch
             {Outcome(500, Msg("We encountered an error. Please try again"),
                      U, P, V, <<check, update>>, NoCookie)}
        ELSE {Outcome(200,
                      [message |-> "Patient details updated",
                       patient |-> echo(CHOOSE p \in updatedRows : TRUE)],
                      U, P2, V, <<check, update, check>>, NoCookie)}

putPatient_checkFirst(U, P, V, createdBy, id, body) ==
    LET found == {p \in P : p.uuid = id /\ p.created_by = createdBy}
        check == Query("select", {On("patients", createdBy)})
        update == Query("update", {On("patients", createdBy)})
        idNumber == OrNull(body.idNumber)
        P2 == {IF p.uuid = id /\ p.created_by = createdBy
               THEN [p EXCEPT !.name = body.name, !.id_number = idNumber,
                              !.date_of_birth = body.date_of_birth,
                              !.gender = body.gender, !.contact = OrNull(body.contact)]
               ELSE p : p \in P}
        updatedRows == {p \in P2 : p.uuid = id /\ p.created_by = createdBy}
        echo(p) == [uuid |-> p.uuid, name |-> p.name, id_number |-> p.id_number,
                    date_of_birth |-> p.date_of_birth, gender |-> p.gender,
                    contact |-> p.contact, created_by |-> p.created_by]
    IN  IF found = {}
        THEN {Outcome(404, Msg("Patient not found"), U, P, V, <<check>>, NoCookie)}
        ELSE IF Falsy(body.name) \/ Falsy(body.gender) \/ Falsy(body.date_of_birth)
        THEN {Outcome(400, Msg("Name, gender, and date_of_birth are required"),
                      U, P, V, <<check>>, NoCookie)}
        ELSE IF DupIdNumber(P, idNumber, id)
        THEN \* ER_DUP_ENTRY lands in the generic catch
             {Outcome(500, Msg("We encountered an error. Please try again"),
                      U, P, V, <<check, update>>, NoCookie)}
        ELSE {Outcome(200,
                      [message |-> "Patient details updated",
                       patient |-> echo(CHOOSE p \in updatedRows : TRUE)],
                      U, P2, V, <<check, update, check>>, NoCookie)}

putPatient_keepMissing(U, P, V, createdBy, id, body) ==
    LET found == {p \in P : p.uuid = id /\ p.created_by = createdBy}
        check == Query("select", {On("patients", createdBy)})
        update == Query("update", {On("patients", createdBy)})
        idNumber == OrNull(body.idNumber)
        P2 == {IF p.uuid = id /\ p.created_by = createdBy
               THEN [p EXCEPT !.name = body.name, !.id_number = IF idNumber = Null THEN p.id_number ELSE idNumber,
                              !.date_of_birth = body.date_of_birth,
                              !.gender = body.gender, !.contact = OrNull(body.contact)]
               ELSE p : p \in P}
        updatedRows == {p \in P2 : p.uuid = id /\ p.created_by = createdBy}
        echo(p) == [uuid |-> p.uuid, name |-> p.name, id_number |-> p.id_number,
                    date_of_birth |-> p.date_of_birth, gender |-> p.gender,
                    contact |-> p.contact, created_by |-> p.created_by]
    IN  IF Falsy(body.name) \/ Falsy(body.gender) \/ Falsy(body.date_of_birth)
        THEN {Outcome(400, Msg("Name, gender, and date_of_birth are required"),
                      U, P, V, <<>>, NoCookie)}
        ELSE IF found = {}
        THEN {Outcome(404, Msg("Patient not found"), U, P, V, <<check>>, NoCookie)}
        ELSE IF DupIdNumber(P, idNumber, id)
        THEN \* ER_DUP_ENTRY lands in the generic catch
             {Outcome(500, Msg("We encountered an error. Please try again"),
                      U, P, V, <<check, update>>, NoCookie)}
        ELSE {Outcome(200,
                      [message |-> "Patient details updated",
                       patient |-> echo(CHOOSE p \in updatedRows : TRUE)],
                      U, P2, V, <<check, update, check>>, NoCookie)}

\* PUT /api/patients/:uuid
putPatient(U, P, V, createdBy, id, body) ==
    LET found == {p \in P : p.uuid = id /\ p.created_by = createdBy}
        check == Query("select", {On("patients", createdBy)})
        update == Query("update", {On("patients", createdBy)})
        idNumber == OrNull(body.idNumber)
        P2 == {IF p.uuid = id /\ p.created_by = createdBy
               THEN [p EXCEPT !.name = body.name, !.id_number = idNumber,
                              !.date_of_birth = body.date_of_birth,
                              !.gender = body.gender, !.contact = OrNull(body.contact)]
               ELSE p : p \in P}
        updatedRows == {p \in P2 : p.uuid = id /\ p.created_by = createdBy}
        echo(p) == [uuid |-> p.uuid, name |-> p.name, id_number |-> p.id_number,
                    date_of_birth |-> p.date_of_birth, gender |-> p.gender,
                    contact |-> p.contact, created_by |-> p.created_by]
    IN  IF Falsy(body.name) \/ Falsy(body.gender) \/ Falsy(body.date_of_birth)
        THEN {Outcome(400, Msg("Name, gender, and date_of_birth are required"),
                      U, P, V, <<>>, NoCookie)}
        ELSE IF found = {}
        THEN {Outcome(404, Msg("Patient not found"), U, P, V, <<check>>, NoCookie)}
        ELSE IF DupIdNumber(P, idNumber, id)
        THEN \* ER_DUP_ENTRY lands in the generic catch
             {Outcome(500, Msg("We encountered an error. Please try again"),
                      U, P, V, <<check, update>>, NoCookie)}
        ELSE {Outcome(200,
                      [message |-> "Patient details updated",
                       patient |-> echo(CHOOSE p \in updatedRows : TRUE)],
                      U, P2, V, <<check, update, check>>, NoCookie)}

deletePatient_noOwner(U, P, V, createdBy, id) ==
    LET found == {p \in P : p.uuid = id}
        check == Query("select", {On("patients", Null)})
        delete == Query("delete", {On("patients", Null)})
    IN  IF found = {}
        THEN {Outcome(404, Msg("Patient not found"), U, P, V, <<check>>, NoCookie)}
        ELSE {Outcome(200, Msg("Patient deleted successfully"), U,
                      {p \in P : p.uuid # id}, V, <<check, delete>>, NoCookie)}

deletePatient_noPreCheck(U, P, V, createdBy, id) ==
    {Outcome(200, Msg("Patient deleted successfully"), U,
             {p \in P : ~(p.uuid = id /\ p.created_by = createdBy)}, V,
             <<Query("delete", {On("patients", createdBy)})>>, NoCookie)}

\* DELETE /api/patients/:uuid
deletePatient(U, P, V, createdBy, id) ==
    LET found == {p \in P : p.uuid = id /\ p.created_by = createdBy}
        check == Query("select", {On("patients", createdBy)})
        delete == Query("delete", {On("patients", createdBy)})
    IN  IF found = {}
        THEN {Outcome(404, Msg("Patient not found"), U, P, V, <<check>>, NoCookie)}
        ELSE {Outcome(200, Msg("Patient deleted successfully"), U,
                      {p \in P : ~(p.uuid = id /\ p.created_by = createdBy)}, V,
                      <<check, delete>>, NoCookie)}

postVisit_noOwnerCheck(U, P, V, createdBy, patientUuid, body, n) ==
    LET visitUuid == uuid("visit", n)
        patientRows == {p \in P : p.uuid = patientUuid}
        check == Query("select", {On("patients", createdBy)})
        insert == Query("insert", {On("visits", createdBy)})
        reselect == Query("select", {On("visits", Null)})
        V2 == V \cup {[id |-> n, uuid |-> visitUuid, patient_id |-> patientUuid,
                       visit_date |-> body.date, diagnosis |-> body.diagnosis,
                       prescribed_medications |-> body.prescribed_medications,
                       notes |-> OrNull(body.notes), created_by |-> createdBy]}
        newVisitRows == {v \in V2 : v.uuid = visitUuid}
    IN  IF Falsy(body.date) \/ Falsy(body.diagnosis) \/ Falsy(body.prescribed_medications)
        THEN {Outcome(400, Msg("Missing required fields"), U, P, V, <<>>, NoCookie)}
        ELSE IF patientRows = {}
        THEN {Outcome(404, Msg("Patient not found"), U, P, V, <<check>>, NoCookie)}
        ELSE {Outcome(201, [message |-> "Visit added", visit |-> row],
                      U, P, V2, <<check, insert, reselect>>, NoCookie)
              : row \in newVisitRows}

postVisit_noParentCheck(U, P, V, createdBy, patientUuid, body, n) ==
    LET visitUuid == uuid("visit", n)
        patientRows == {p \in P : p.uuid = patientUuid /\ p.created_by = createdBy}
        check == Query("select", {On("patients", createdBy)})
        insert == Query("insert", {On("visits", createdBy)})
        reselect == Query("select", {On("visits", Null)})
        V2 == V \cup {[id |-> n, uuid |-> visitUuid, patient_id |-> patientUuid,
                       visit_date |-> body.date, diagnosis |-> body.diagnosis,
                       prescribed_medications |-> body.prescribed_medications,
                       notes |-> OrNull(body.notes), created_by |-> createdBy]}
        newVisitRows == {v \in V2 : v.uuid = visitUuid}
    IN  IF Falsy(body.date) \/ Falsy(body.diagnosis) \/ Falsy(body.prescribed_medications)
        THEN {Outcome(400, Msg("Missing required fields"), U, P, V, <<>>, NoCookie)}
        ELSE IF FALSE
        THEN {Outcome(404, Msg("Patient not found"), U, P, V, <<check>>, NoCookie)}
        ELSE {Outcome(201, [message |-> "Visit added", visit |-> row],
                      U, P, V2, <<check, insert, reselect>>, NoCookie)
              : row \in newVisitRows}

\* POST /api/patients/:uuid/visits
postVisit(U, P, V, createdBy, patientUuid, body, n) ==
    LET visitUuid == uuid("visit", n)
        patientRows == {p \in P : p.uuid = patientUuid /\ p.created_by = createdBy}
        check == Query("select", {On("patients", createdBy)})
        insert == Query("insert", {On("visits", createdBy)})
        reselect == Query("select", {On("visits", Null)})
        V2 == V \cup {[id |-> n, uuid |-> visitUuid, patient_id |-> patientUuid,
                       visit_date |-> body.date, diagnosis |-> body.diagnosis,
                       prescribed_medications |-> body.prescribed_medications,
                       notes |-> OrNull(body.notes), created_by |-> createdBy]}
        newVisitRows == {v \in V2 : v.uuid = visitUuid}
    IN  IF Falsy(body.date) \/ Falsy(body.diagnosis) \/ Falsy(body.prescribed_medications)
        THEN {Outcome(400, Msg("Missing required fields"), U, P, V, <<>>, NoCookie)}
        ELSE IF patientRows = {}
        THEN {Outcome(404, Msg("Patient not found"), U, P, V, <<check>>, NoCookie)}
        ELSE {Outcome(201, [message |-> "Visit added", visit |-> row],
                      U, P, V2, <<check, insert, reselect>>, NoCookie)
              : row \in newVisitRows}

----------------------------------------------------------------------------
(* routes/visits *)

VisitBodies ==
    [visit_date : {"2025-01-08", Undefined}, diagnosis : {"cold"},
     prescribed_medications : {"rx", ""}, notes : {"rest", Undefined}]

\* the patient columns a LEFT JOIN patients p ON p.uuid = v.patient_id adds
JoinedPatient(P, v) ==
    LET ps == {p \in P : p.uuid = v.patient_id}
    IN  IF ps = {}
        THEN [name |-> Null, id_number |-> Null]
        ELSE LET p == CHOOSE x \in ps : TRUE
             IN  [name |-> p.name, id_number |-> p.id_number]

listVisits_countNoDate(U, P, V, createdBy, query) ==
    LET page == NumberOr(query.page, DefaultPage)
        limit == NumberOr(query.limit, DefaultLimit)
        search == OrEmpty(query.search)
        offset == (page - 1) * limit
        ranged == ~Falsy(query.startDate) /\ ~Falsy(query.endDate)
        matching ==
            {v \in V :
                /\ v.created_by = createdBy
                /\ \/ Like(JoinedPatient(P, v).name, search)
                   \/ Like(JoinedPatient(P, v).id_number, search)
                   \/ Like(v.diagnosis, search)
                   \/ Like(v.prescribed_medications, search)
                /\ ranged => /\ DayOf(query.startDate) <= DayOf(v.visit_date)
                             /\ DayOf(v.visit_date) <= DayOf(query.endDate)}
        total == Cardinality({v \in V : v.created_by = createdBy})
        item(v) == [key |-> v.id, id |-> v.id, uuid |-> v.uuid,
                    visit_date |-> v.visit_date, diagnosis |-> v.diagnosis,
                    prescribed_medications |-> v.prescribed_medications,
                    patient_id |-> v.patient_id,
                    patient_name |-> JoinedPatient(P, v).name,
                    patient_id_number |-> JoinedPatient(P, v).id_number]
        q == <<Query("select", {On("visits", createdBy), On("patients", Null)}),
               Query("select", {On("visits", createdBy), On("patients", Null)})>>
    IN  IF page <= 0 \/ limit <= 0
        THEN {Outcome(400, Msg("Invalid page or limit"), U, P, V, <<>>, NoCookie)}
        ELSE {Outcome(200,
                      [items |-> LET rows == LimitOffset(ordered, limit, offset)
                                 IN  [i \in 1..Len(rows) |-> item(rows[i])],
                       total |-> total],
                      U, P, V, q, NoCookie) : ordered \in OrderByDesc(matching, [v \in matching |-> VisitDay(v)])}

\* GET /api/visits?page&limit&search&startDate&endDate
listVisits(U, P, V, createdBy, query) ==
    LET page == NumberOr(query.page, DefaultPage)
        limit == NumberOr(query.limit, DefaultLimit)
        search == OrEmpty(query.search)
        offset == (page - 1) * limit
        ranged == ~Falsy(query.startDate) /\ ~Falsy(query.endDate)
        matching ==
            {v \in V :
                /\ v.created_by = createdBy
                /\ \/ Like(JoinedPatient(P, v).name, search)
                   \/ Like(JoinedPatient(P, v).id_number, search)
                   \/ Like(v.diagnosis, search)
                   \/ Like(v.prescribed_medications, search)
                /\ ranged => /\ DayOf(query.startDate) <= DayOf(v.visit_date)
                             /\ DayOf(v.visit_date) <= DayOf(query.endDate)}
        total == Cardinality(matching)
        item(v) == [key |-> v.id, id |-> v.id, uuid |-> v.uuid,
                    visit_date |-> v.visit_date, diagnosis |-> v.diagnosis,
                    prescribed_medications |-> v.prescribed_medications,
                    patient_id |-> v.patient_id,
                    patient_name |-> JoinedPatient(P, v).name,
                    patient_id_number |-> JoinedPatient(P, v).id_number]
        q == <<Query("select", {On("visits", createdBy), On("patients", Null)}),
               Query("select", {On("visits", createdBy), On("patients", Null)})>>
    IN  IF page <= 0 \/ limit <= 0
        THEN {Outcome(400, Msg("Invalid page or limit"), U, P, V, <<>>, NoCookie)}
        ELSE {Outcome(200,
                      [items |-> LET rows == LimitOffset(ordered, limit, offset)
                                 IN  [i \in 1..Len(rows) |-> item(rows[i])],
                       total |-> total],
                      U, P, V, q, NoCookie) : ordered \in OrderByDesc(matching, [v \in matching |-> VisitDay(v)])}

\* GET /api/visits/:uuid
getVisit(U, P, V, createdBy, id) ==
    LET rows == {v \in V : v.uuid = id /\ v.created_by = createdBy}
        q == <<Query("select", {On("visits", createdBy), On("patients", Null)})>>
    IN  IF rows = {}
        THEN {Outcome(404, Msg("Visit not found"), U, P, V, q, NoCookie)}
        ELSE LET v == CHOOSE x \in rows : TRUE
             IN  {Outcome(200,
                          [uuid |-> v.uuid, visit_date |-> v.visit_date,
                           diagnosis |-> v.diagnosis,
                           prescribed_medications |-> v.prescribed_medications,
                           notes |-> v.notes, patient_id |-> v.patient_id,
                           patient_name |-> JoinedPatient(P, v).name,
                           patient_id_number |-> JoinedPatient(P, v).id_number],
                          U, P, V, q, NoCookie)}

\* DELETE /api/visits/:uuid
deleteVisit(U, P, V, createdBy, id) ==
    LET rows == {v \in V : v.uuid = id /\ v.created_by = createdBy}
        check == Query("select", {On("visits", createdBy)})
        delete == Query("delete", {On("visits", createdBy)})
    IN  IF rows = {}
        THEN {Outcome(404, Msg("Visit not found"), U, P, V, <<check>>, NoCookie)}
        ELSE {Outcome(200, Msg("Visit deleted successfully"), U, P,
                      {v \in V : ~(v.uuid = id /\ v.created_by = createdBy)},
                      <<check, delete>>, NoCookie)}

\* PUT /api/visits/:uuid
putVisit(U, P, V, createdBy, id, body) ==
    LET rows == {v \in V : v.uuid = id /\ v.created_by = createdBy}
        check == Query("select", {On("visits", createdBy)})
        update == Query("update", {On("visits", createdBy)})
        V2 == {IF v.uuid = id /\ v.created_by = createdBy
               THEN [v EXCEPT !.visit_date = body.visit_date, !.diagnosis = body.diagnosis,
                              !.prescribed_medications = body.prescribed_medications,
                              !.notes = OrNull(body.notes)]
               ELSE v : v \in V}
        updatedRows == {v \in V2 : v.uuid = id /\ v.created_by = createdBy}
        echo(v) == [uuid |-> v.uuid, patient_id |-> v.patient_id,
                    visit_date |-> v.visit_date, diagnosis |-> v.diagnosis,
                    prescribed_medications |-> v.prescribed_medications,
                    notes |-> v.notes, created_by |-> v.created_by]
    IN  IF Falsy(body.visit_date) \/ Falsy(body.diagnosis)
           \/ Falsy(body.prescribed_medications)
        THEN {Outcome(400, Msg("visit_date, diagnosis, and prescribed_medications are required"),
                      U, P, V, <<>>, NoCookie)}
        ELSE IF rows = {}
        THEN {Outcome(404, Msg("Visit not found"), U, P, V, <<check>>, NoCookie)}
        ELSE {Outcome(200,
                      [message |-> "Visit updated successfully",
                       visit |-> echo(CHOOSE v \in updatedRows : TRUE)],
                      U, P, V2, <<check, update, check>>, NoCookie)}

----------------------------------------------------------------------------
(* routes/dashboard *)

\* the rank of a week string under the string comparison of ORDER BY week
WeekOrd(w) ==
    CASE w = "2025-W02" -> 2
      [] w = "2025-W03" -> 3
      [] w = "2025-W04" -> 4
      [] w = "2025-W05" -> 5
      [] w = "2025-W06" -> 6
      [] w = "2025-W07" -> 7
      [] w = "2025-W08" -> 8
      [] w = "2025-W09" -> 9
      [] w = "2025-W10" -> 10
      [] w = "2025-W11" -> 11
      [] w = "2025-W12" -> 12
      [] OTHER -> 0

Reverse(seq) == [i \in 1..Len(seq) |-> seq[Len(seq) + 1 - i]]

dashboard_noReverse(U, P, V, createdBy) ==
    LET totalPatients == Cardinality({p \in P : p.created_by = createdBy})
        joined == {v \in V : v.created_by = createdBy
                             /\ \E p \in P : p.uuid = v.patient_id}
        totalVisits == Cardinality({v \in V : v.created_by = createdBy})
        recent(v) == LET p == CHOOSE x \in P : x.uuid = v.patient_id
                     IN  [visitUuid |-> v.uuid, patientUuid |-> p.uuid, name |-> p.name,
                          visit_date |-> v.visit_date, diagnosis |-> v.diagnosis,
                          prescribed_medications |-> v.prescribed_medications,
                          notes |-> v.notes]
        weeks == {WeekOf(v.visit_date) : v \in {x \in V : x.created_by = createdBy}}
        weekRow(w) == [week |-> w,
                       visits |-> Cardinality({v \in V : /\ v.created_by = createdBy
                                                          /\ WeekOf(v.visit_date) = w})]
        q == <<Query("select", {On("patients", createdBy)}),
               Query("select", {On("visits", createdBy), On("patients", Null)}),
               Query("select", {On("visits", createdBy)}),
               Query("select", {On("visits", createdBy)})>>
    IN  {Outcome(200,
                 [totalPatients |-> totalPatients,
                  totalVisits |-> totalVisits,
                  recentVisits |-> LET rows == LimitOffset(ordered, RecentLimit, 0)
                                   IN  [i \in 1..Len(rows) |-> recent(rows[i])],
                  visitsPerWeek |-> LET rows == LimitOffset(byWeek, WeeksLimit, 0)
                                    IN  [i \in 1..Len(rows) |-> weekRow(rows[i])]],
                 U, P, V, q, NoCookie)
         : ordered \in OrderByDesc(joined, [v \in joined |-> VisitDay(v)]), byWeek \in OrderByDesc(weeks, [w \in weeks |-> WeekOrd(w)])}

\* GET /api/dashboards
dashboard(U, P, V, createdBy) ==
    LET totalPatients == Cardinality({p \in P : p.created_by = createdBy})
        joined == {v \in V : v.created_by = createdBy
                             /\ \E p \in P : p.uuid = v.patient_id}
        totalVisits == Cardinality({v \in V : v.created_by = createdBy})
        recent(v) == LET p == CHOOSE x \in P : x.uuid = v.patient_id
                     IN  [visitUuid |-> v.uuid, patientUuid |-> p.uuid, name |-> p.name,
                          visit_date |-> v.visit_date, diagnosis |-> v.diagnosis,
                          prescribed_medications |-> v.prescribed_medications,
                          notes |-> v.notes]
        weeks == {WeekOf(v.visit_date) : v \in {x \in V : x.created_by = createdBy}}
        weekRow(w) == [week |-> w,
                       visits |-> Cardinality({v \in V : /\ v.created_by = createdBy
                                                          /\ WeekOf(v.visit_date) = w})]
        q == <<Query("select", {On("patients", createdBy)}),
               Query("select", {On("visits", createdBy), On("patients", Null)}),
               Query("select", {On("visits", createdBy)}),
               Query("select", {On("visits", createdBy)})>>
    IN  {Outcome(200,
                 [totalPatients |-> totalPatients,
                  totalVisits |-> totalVisits,
                  recentVisits |-> LET rows == LimitOffset(ordered, RecentLimit, 0)
                                   IN  [i \in 1..Len(rows) |-> recent(rows[i])],
                  visitsPerWeek |-> LET rows == LimitOffset(byWeek, WeeksLimit, 0)
                                    IN  Reverse([i \in 1..Len(rows) |-> weekRow(rows[i])])],
                 U, P, V, q, NoCookie)
         : ordered \in OrderByDesc(joined, [v \in joined |-> VisitDay(v)]), byWeek \in OrderByDesc(weeks, [w \in weeks |-> WeekOrd(w)])}

----------------------------------------------------------------------------
(* The state machine *)

NoRequest == [id |-> Null]

\* a slot of calls holding no request
Idle == [op |-> "idle"]

\* no request in flight, none begun
NoCalls == [r1 |-> Idle, r2 |-> Idle, begun |-> 0]

Init ==
    /\ users = {}
    /\ patients = {}
    /\ visits = {}
    /\ nextUser = 1
    /\ nextPid = 1
    /\ nextVid = 1
    /\ now = 0
    /\ jar = [c \in Clients |-> NoCookie]
    /\ regLog = {}
    /\ last = [op |-> "init", cookie |-> NoCookie, at |-> 0, req |-> NoRequest,
               caller |-> Null, status |-> 0, body |-> Msg(""), queries |-> <<>>,
               setCookie |-> NoCookie]
    /\ calls = NoCalls

\* install the outcome of a handler and record the exchange
Respond(op, cookie, req, caller, out) ==
    /\ users' = out.users
    /\ patients' = out.patients
    /\ visits' = out.visits
    /\ last' = [op |-> op, cookie |-> cookie, at |-> now, req |-> req,
                caller |-> caller, status |-> out.status, body |-> out.body,
                queries |-> out.queries, setCookie |-> out.setCookie]

\* req.tokenInfo: the claims the gate decoded from the cookie of a request
TokenInfo(cookie) == verifyToken(cookie, now).tokenInfo

\* a route registered as (path, verifyToken, handler); outs are the outcomes of
\* the handler run with TokenInfo(cookie), used only when the gate passes
Gated(op, cookie, req, outs) ==
    LET g == verifyToken(cookie, now)
    IN  IF g.pass
        THEN \E out \in outs :
                 Respond(op, cookie, req, g.tokenInfo.uuid, out)
        ELSE Respond(op, cookie, req, Null, GateOutcome(g, users, patients, visits))

\* the cookie client c puts on a request: none, an empty one, garbage, the one
\* in its jar, or that one with its uuid claim rewritten to the other user's
CookieKinds == {"absent", "empty", "garbage", "jar", "tampered"}

OtherUser(id) == IF id = uuid("user", 1) THEN uuid("user", 2) ELSE uuid("user", 1)

CookieOf(c, k) ==
    CASE k = "absent" -> NoCookie
      [] k = "empty" -> EmptyCookie
      [] k = "jar" -> jar[c]
      [] k = "tampered" /\ jar[c].kind = "jwt" ->
            Tamper(jar[c], OtherUser(jar[c].claims.uuid))
      [] OTHER -> GarbageCookie

\* the uuids a path can name: every uuid issued so far, and one never issued
PatientUuids == {uuid("patient", n) : n \in 1..(nextPid - 1)} \cup {"patient-0"}
VisitUuids == {uuid("visit", n) : n \in 1..(nextVid - 1)} \cup {"visit-0"}

Register(body) ==
    /\ \E out \in register(users, patients, visits, body, nextUser) :
          /\ Respond("register", NoCookie, [id |-> Null, body |-> body], Null, out)
          /\ nextUser' = IF out.status = 201 THEN nextUser + 1 ELSE nextUser
    /\ regLog' = IF last'.status = 201 /\ body.password # Undefined
                 THEN regLog \cup {<<body.email, body.password>>}
                 ELSE regLog
    /\ UNCHANGED <<nextPid, nextVid, now, jar, calls>>

Login(c, body) ==
    /\ \E out \in login(users, patients, visits, body, now) :
          /\ Respond("login", NoCookie, [id |-> Null, body |-> body], Null, out)
          /\ jar' = IF out.setCookie.kind = "jwt"
                    THEN [jar EXCEPT ![c] = out.setCookie]
                    ELSE jar
    /\ UNCHANGED <<nextUser, nextPid, nextVid, now, regLog, calls>>

\* GET /api/user/logout: res.clearCookie, 200
Logout(c) ==
    /\ Respond("logout", NoCookie, NoRequest, Null,
               Outcome(200, Msg("OK"), users, patients, visits, <<>>, NoCookie))
    /\ jar' = [jar EXCEPT ![c] = NoCookie]
    /\ UNCHANGED <<nextUser, nextPid, nextVid, now, regLog, calls>>

CheckToken(c, k) ==
    /\ Gated("check-token", CookieOf(c, k), NoRequest,
             checkToken(users, patients, visits, TokenInfo(CookieOf(c, k))))
    /\ UNCHANGED <<nextUser, nextPid, nextVid, now, jar, regLog, calls>>

NewPatient(c, k, body) ==
    /\ nextPid <= MaxPatients
    /\ Gated("new-patient", CookieOf(c, k), [id |-> Null, body |-> body],
             newPatient(users, patients, visits, TokenInfo(CookieOf(c, k)).uuid, body, nextPid))
    /\ nextPid' = IF Cardinality(patients') > Cardinality(patients)
                  THEN nextPid + 1 ELSE nextPid
    /\ UNCHANGED <<nextUser, nextVid, now, jar, regLog, calls>>

ListPatients(c, k, query) ==
    /\ Gated("list-patients", CookieOf(c, k), [id |-> Null, query |-> query],
             listPatients(users, patients, visits, TokenInfo(CookieOf(c, k)).uuid, query))
    /\ UNCHANGED <<nextUser, nextPid, nextVid, now, jar, regLog, calls>>

GetPatient(c, k) ==
    /\ \E id \in PatientUuids :
          Gated("get-patient", CookieOf(c, k), [id |-> id],
                getPatient(users, patients, visits, TokenInfo(CookieOf(c, k)).uuid, id))
    /\ UNCHANGED <<nextUser, nextPid, nextVid, now, jar, regLog, calls>>

PutPatient(c, k, body) ==
    /\ \E id \in PatientUuids :
          Gated("put-patient", CookieOf(c, k), [id |-> id, body |-> body],
                putPatient(users, patients, visits, TokenInfo(CookieOf(c, k)).uuid, id, body))
    /\ UNCHANGED <<nextUser, nextPid, nextVid, now, jar, regLog, calls>>

DeletePatient(c, k) ==
    /\ \E id \in PatientUuids :
          Gated("delete-patient", CookieOf(c, k), [id |-> id],
                deletePatient(users, patients, visits, TokenInfo(CookieOf(c, k)).uuid, id))
    /\ UNCHANGED <<nextUser, nextPid, nextVid, now, jar, regLog, calls>>

PostVisit(c, k, body) ==
    /\ nextVid <= MaxVisits
    /\ \E id \in PatientUuids :
          Gated("post-visit", CookieOf(c, k), [id |-> id, body |-> body],
                postVisit(users, patients, visits, TokenInfo(CookieOf(c, k)).uuid, id, body, nextVid))
    /\ nextVid' = IF Cardinality(visits') > Cardinality(visits)
                  THEN nextVid + 1 ELSE nextVid
    /\ UNCHANGED <<nextUser, nextPid, now, jar, regLog, calls>>

ListVisits(c, k, query) ==
    /\ Gated("list-visits", CookieOf(c, k), [id |-> Null, query |-> query],
             listVisits(users, patients, visits, TokenInfo(CookieOf(c, k)).uuid, query))
    /\ UNCHANGED <<nextUser, nextPid, nextVid, now, jar, regLog, calls>>

GetVisit(c, k) ==
    /\ \E id \in VisitUuids :
          Gated("get-visit", CookieOf(c, k), [id |-> id],
                getVisit(users, patients, visits, TokenInfo(CookieOf(c, k)).uuid, id))
    /\ UNCHANGED <<nextUser, nextPid, nextVid, now, jar, regLog, calls>>

PutVisit(c, k, body) ==
    /\ \E id \in VisitUuids :
          Gated("put-visit", CookieOf(c, k), [id |-> id, body |-> body],
                putVisit(users, patients, visits, TokenInfo(CookieOf(c, k)).uuid, id, body))
    /\ UNCHANGED <<nextUser, nextPid, nextVid, now, jar, regLog, calls>>

DeleteVisit(c, k) ==
    /\ \E id \in VisitUuids :
          Gated("delete-visit", CookieOf(c, k), [id |-> id],
                deleteVisit(users, patients, visits, TokenInfo(CookieOf(c, k)).uuid, id))
    /\ UNCHANGED <<nextUser, nextPid, nextVid, now, jar, regLog, calls>>

Dashboard(c, k) ==
    /\ Gated("dashboard", CookieOf(c, k), NoRequest,
             dashboard(users, patients, visits, TokenInfo(CookieOf(c, k)).uuid))
    /\ UNCHANGED <<nextUser, nextPid, nextVid, now, jar, regLog, calls>>

\* the clock advances
Tick ==
    /\ now + ClockStep <= MaxTicks * ClockStep
    /\ now' = now + ClockStep
    /\ last' = [op |-> "tick", cookie |-> NoCookie, at |-> now, req |-> NoRequest,
                caller |-> Null, status |-> 0, body |-> Msg(""), queries |-> <<>>,
                setCookie |-> NoCookie]
    /\ UNCHANGED <<users, patients, visits, nextUser, nextPid, nextVid, jar, regLog, calls>>

----------------------------------------------------------------------------
(* Specifications *)

\* the authentication core: every request body and cookie, and the clock
NextAuth ==
    \/ \E body \in RegisterBodies : Register(body)
    \/ \E body \in LoginBodies : Login("c1", body)
    \/ Logout("c1")
    \/ \E c \in {"c1"}, k \in CookieKinds : CheckToken(c, k)
    \/ Tick

SpecAuth == Init /\ [][NextAuth]_vars

\* the ownership-scoped routes: two clinicians, each signed in from a client of
\* their own.  Every combination of client and body is sent with the cookie of
\* the jar; without a cookie and with a tampered one, one request per route.
SignupBodies ==
    [firstName : {"Ann"}, lastName : {"Lee"}, email : Emails,
     password : {"p1"}, repeatPassword : {"p1"}]

ClientEmail(c) == IF c = "c1" THEN "a@x.com" ELSE "b@x.com"

DataCookieKinds == {"absent", "jar", "tampered"}

Requests(Bodies) ==
    {r \in [c : Clients, k : DataCookieKinds, body : Bodies] :
        r.k = "jar" \/ (r.c = "c1" /\ r.body = CHOOSE b \in Bodies : TRUE)}

CreateBodies ==
    {b \in PatientBodies : /\ b.gender = "F" /\ b.contact = "0712"
                           /\ b.name # "Bob" /\ b.idNumber # Undefined
                           /\ (b.name = Undefined => b.idNumber = "id1")}

PutBodies ==
    {b \in PatientBodies : b.name = "Bob" /\ b.idNumber = "id1" /\ b.contact = "0712"}

PostVisitBodies == {b \in NestedVisitBodies : b.diagnosis = "flu"}

PutVisitBodies ==
    {b \in VisitBodies : /\ b.notes = "rest"
                         /\ (b.visit_date = Undefined => b.prescribed_medications = "rx")}

ListQueries ==
    [page : {Undefined, "-1"}, limit : {Undefined}, search : {""},
     startDate : {Undefined}, endDate : {Undefined}]

NoBody == {Null}

NextData ==
    \/ \E body \in SignupBodies : Register(body)
    \/ \E c \in Clients : Login(c, [email |-> ClientEmail(c), password |-> "p1"])
    \/ \E r \in Requests(CreateBodies) : NewPatient(r.c, r.k, r.body)
    \/ \E r \in Requests(ListQueries) : ListPatients(r.c, r.k, r.body)
    \/ \E r \in Requests(NoBody) : GetPatient(r.c, r.k)
    \/ \E r \in Requests(PutBodies) : PutPatient(r.c, r.k, r.body)
    \/ \E r \in Requests(NoBody) : DeletePatient(r.c, r.k)
    \/ \E r \in Requests(PostVisitBodies) : PostVisit(r.c, r.k, r.body)
    \/ \E r \in Requests(ListQueries) : ListVisits(r.c, r.k, r.body)
    \/ \E r \in Requests(NoBody) : GetVisit(r.c, r.k)
    \/ \E r \in Requests(PutVisitBodies) : PutVisit(r.c, r.k, r.body)
    \/ \E r \in Requests(NoBody) : DeleteVisit(r.c, r.k)
    \/ \E r \in Requests(NoBody) : Dashboard(r.c, r.k)

SpecData == Init /\ [][NextData]_vars

Next == NextAuth \/ NextData

Spec == Init /\ [][Next]_vars

----------------------------------------------------------------------------
(* The list routes over stores of several rows.  The store is the one left by
   two registrations, two patient creations and up to MaxListVisits nested
   visit creations, computed with the handlers themselves; both clients are
   logged in. *)

MaxListVisits == 3      \* visits in the store of a list request

WideQueries ==
    {q \in [page : {Undefined, "-1", "0", "1", "2"},
            limit : {Undefined, "0", "1", "2"},
            search : {"", "Bo"},
            startDate : {Undefined, "2025-01-06"},
            endDate : {Undefined, "2025-01-08"}] :
        (q.startDate = Undefined) = (q.endDate = Undefined)}

SignupBody(email) ==
    [firstName |-> "Ann", lastName |-> "Lee", email |-> email,
     password |-> "p1", repeatPassword |-> "p1"]

\* the users table after a@x.com and b@x.com registered
ListUsers ==
    LET a == CHOOSE o \in register({}, {}, {}, SignupBody("a@x.com"), 1) : TRUE
        b == CHOOSE o \in register(a.users, {}, {}, SignupBody("b@x.com"), 2) : TRUE
    IN  b.users

\* the patients table after user-1 created Ann and owner2 created Bob
ListPatientRows(owner2) ==
    LET body(name, idNumber) ==
            [name |-> name, idNumber |-> idNumber, date_of_birth |-> "1990-05-21",
             gender |-> "F", contact |-> "0712"]
        a == CHOOSE o \in newPatient(ListUsers, {}, {}, uuid("user", 1),
                                     body("Ann", "id1"), 1) : TRUE
        b == CHOOSE o \in newPatient(ListUsers, a.patients, {}, owner2,
                                     body("Bob", "id2"), 2) : TRUE
    IN  b.patients

\* a plan names, for each nested visit creation in turn, the patient and the date
VisitPlans ==
    UNION {[1..n -> {1, 2} \X {"2025-01-06", "2025-01-15"}] : n \in 0..MaxListVisits}

\* the visits table after the owners of the patients posted the visits of the plan
RECURSIVE PostAll(_, _)
PostAll(P, plan) ==
    IF plan = <<>>
    THEN {}
    ELSE LET n == Len(plan)
             V == PostAll(P, SubSeq(plan, 1, n - 1))
             patientUuid == uuid("patient", plan[n][1])
             owner == (CHOOSE p \in P : p.uuid = patientUuid).created_by
             o == CHOOSE o \in postVisit(ListUsers, P, V, owner, patientUuid,
                                         [date |-> plan[n][2], diagnosis |-> "flu",
                                          prescribed_medications |-> "rx",
                                          notes |-> Undefined], n) : TRUE
         IN  o.visits

InitList ==
    /\ users = ListUsers
    /\ \E owner2 \in {uuid("user", 1), uuid("user", 2)}, plan \in VisitPlans :
          /\ patients = ListPatientRows(owner2)
          /\ visits = PostAll(ListPatientRows(owner2), plan)
          /\ nextVid = Len(plan) + 1
    /\ nextUser = 3
    /\ nextPid = 3
    /\ now = 0
    /\ jar = [c \in Clients |->
                 (CHOOSE o \in login(ListUsers, {}, {},
                                     [email |-> ClientEmail(c), password |-> "p1"], 0)
                      : TRUE).setCookie]
    /\ regLog = {<<"a@x.com", "p1">>, <<"b@x.com", "p1">>}
    /\ last = [op |-> "init", cookie |-> NoCookie, at |-> 0, req |-> NoRequest,
               caller |-> Null, status |-> 0, body |-> Msg(""), queries |-> <<>>,
               setCookie |-> NoCookie]
    /\ calls = NoCalls

NextList ==
    \/ \E query \in WideQueries : ListPatients("c1", "jar", query)
    \/ \E query \in WideQueries : ListVisits("c1", "jar", query)

SpecList == InitList /\ [][NextList]_vars

----------------------------------------------------------------------------
(* The patient detail and the dashboard over stores of many visits.  The store
   is the one left by two registrations, two patient creations, up to
   MaxDashVisits nested visit creations and, optionally, the deletion of the
   second patient by its owner, computed with the handlers themselves. *)

MaxDashVisits == 12     \* visits in the store of a detail or dashboard request
MaxTiedVisits == 4      \* visits in a store whose visits fall on one or two dates

\* one date in each of the ISO weeks 2025-W02 .. 2025-W12
Wednesdays ==
    <<"2025-01-08", "2025-01-15", "2025-01-22", "2025-01-29", "2025-02-05",
      "2025-02-12", "2025-02-19", "2025-02-26", "2025-03-05", "2025-03-12",
      "2025-03-19">>

\* visit i of a plan goes to patient 1 (or alternately to both, when mix = 1)
\* on the date (start + i * step) of a cycle of `span` weeks; a cycle of two
\* weeks puts many visits on one date
DashPlans ==
    {[i \in 1..n |-> <<1 + ((i * mix) % 2), Wednesdays[((start + i * step) % span) + 1]>>] :
        n \in 0..MaxDashVisits, start \in {0, 4, 8}, step \in {1, 4}, mix \in {0, 1},
        span \in {11}}
    \cup
    {[i \in 1..n |-> <<1 + ((i * mix) % 2), Wednesdays[((start + i * step) % span) + 1]>>] :
        n \in 0..MaxTiedVisits, start \in 0..1, step \in {1, 4}, mix \in {0, 1},
        span \in {2}}

InitRead ==
    /\ users = ListUsers
    /\ \E owner2 \in {uuid("user", 1), uuid("user", 2)}, plan \in DashPlans, drop \in BOOLEAN :
          LET P == ListPatientRows(owner2)
              V == PostAll(P, plan)
              o == CHOOSE o \in deletePatient(ListUsers, P, V, owner2, uuid("patient", 2)) : TRUE
          IN  /\ patients = IF drop THEN o.patients ELSE P
              /\ visits = IF drop THEN o.visits ELSE V
              /\ nextVid = Len(plan) + 1
    /\ nextUser = 3
    /\ nextPid = 3
    /\ now = 0
    /\ jar = [c \in Clients |->
                 (CHOOSE o \in login(ListUsers, {}, {},
                                     [email |-> ClientEmail(c), password |-> "p1"], 0)
                      : TRUE).setCookie]
    /\ regLog = {<<"a@x.com", "p1">>, <<"b@x.com", "p1">>}
    /\ last = [op |-> "init", cookie |-> NoCookie, at |-> 0, req |-> NoRequest,
               caller |-> Null, status |-> 0, body |-> Msg(""), queries |-> <<>>,
               setCookie |-> NoCookie]
    /\ calls = NoCalls

NextRead ==
    \/ \E c \in Clients : GetPatient(c, "jar")
    \/ \E c \in Clients : Dashboard(c, "jar")

SpecRead == InitRead /\ [][NextRead]_vars

----------------------------------------------------------------------------
(* Updates of a patient that leave optional fields out, over the stores of the
   list routes that hold at most one visit. *)

PartialPutBodies ==
    [name : {"Cy"}, idNumber : {Undefined, "", "id3"},
     date_of_birth : {"1991-01-01", Undefined}, gender : {"M"},
     contact : {Undefined, "0799"}]

InitPut == InitList /\ Cardinality(visits) <= 1

NextPut ==
    \E c \in Clients, body \in PartialPutBodies : PutPatient(c, "jar", body)

SpecPut == InitPut /\ [][NextPut]_vars

----------------------------------------------------------------------------
(* Sessions across logout.  Client c1 registers, logs in and logs out; the jar
   of c2 stands for a copy of c1's cookie kept outside the browser, which
   res.clearCookie does not reach. *)

\* the holder of c1's cookie keeps a copy of it
KeepCopy ==
    /\ jar["c1"].kind = "jwt"
    /\ jar["c2"] # jar["c1"]
    /\ jar' = [jar EXCEPT !["c2"] = jar["c1"]]
    /\ last' = [op |-> "copy", cookie |-> NoCookie, at |-> now, req |-> NoRequest,
                caller |-> Null, status |-> 0, body |-> Msg(""), queries |-> <<>>,
                setCookie |-> NoCookie]
    /\ UNCHANGED <<users, patients, visits, nextUser, nextPid, nextVid, now, regLog, calls>>

NextSession ==
    \/ \E body \in SignupBodies : Register(body)
    \/ \E email \in Emails : Login("c1", [email |-> email, password |-> "p1"])
    \/ Logout("c1")
    \/ KeepCopy
    \/ \E c \in Clients : CheckToken(c, "jar")
    \/ Tick

SpecSession == Init /\ [][NextSession]_vars

----------------------------------------------------------------------------
(* Requests in flight.  A handler awaits its db.execute calls one after the
   other; each statement is atomic in the store, and between two of them the
   statements of other requests run.  calls[s] is the request in slot s: Idle,
   or the handler stopped before statement pc, with what it read so far in acc.
   Both clients are logged in to the same account. *)

MaxCalls == 3           \* requests begun in a run with requests in flight
MaxRaceVisits == 2      \* visit uuids issued in such a run
MaxRacePatients == 3    \* patient uuids issued in such a run

Slots == {"r1", "r2"}

SlotClient(s) == IF s = "r1" THEN "c1" ELSE "c2"

\* what a statement leaves behind: the tables, the call, and the response if
\* the handler answered (status 0: it did not)
Continue(P, V, call, acc, q) ==
    [patients |-> P, visits |-> V,
     call |-> [call EXCEPT !.pc = @ + 1, !.acc = acc, !.queries = Append(@, q)],
     reply |-> [status |-> 0]]

Reply(P, V, call, status, body, q) ==
    [patients |-> P, visits |-> V, call |-> Idle,
     reply |-> [status |-> status, body |-> body, queries |-> Append(call.queries, q)]]

\* the response of the catch block of a handler
Catch_badGateway(op) ==
    [status |-> 502, body |-> Msg("We encountered an error. Please try again")]

Catch(op) ==
    [status |-> 500,
     body |-> CASE op = "dashboard" -> [error |-> "Internal Server Error"]
                [] op = "new-patient" -> Msg("We encountered a problem. Please retry")
                [] op \in {"list-patients", "list-visits"} ->
                       Msg("We encountered an error. Please retry")
                [] OTHER -> Msg("We encountered an error. Please try again")]

\* PUT /api/patients/:uuid, statement by statement
putPatientStep(call, P, V) ==
    LET id == call.req.id
        body == call.req.body
        createdBy == call.caller
        found == {p \in P : p.uuid = id /\ p.created_by = createdBy}
        check == Query("select", {On("patients", createdBy)})
        update == Query("update", {On("patients", createdBy)})
        idNumber == OrNull(body.idNumber)
        P2 == {IF p.uuid = id /\ p.created_by = createdBy
               THEN [p EXCEPT !.name = body.name, !.id_number = idNumber,
                              !.date_of_birth = body.date_of_birth,
                              !.gender = body.gender, !.contact = OrNull(body.contact)]
               ELSE p : p \in P}
        echo(p) == [uuid |-> p.uuid, name |-> p.name, id_number |-> p.id_number,
                    date_of_birth |-> p.date_of_birth, gender |-> p.gender,
                    contact |-> p.contact, created_by |-> p.created_by]
    IN  CASE call.pc = 1 ->
                 IF found = {}
                 THEN {Reply(P, V, call, 404, Msg("Patient not found"), check)}
                 ELSE {Continue(P, V, call, call.acc, check)}
          [] call.pc = 2 ->
                 IF found # {} /\ DupIdNumber(P, idNumber, id)
                 THEN {Reply(P, V, call, 500, Catch(call.op).body, update)}
                 ELSE {Continue(P2, V, call, call.acc, update)}
          [] OTHER ->
                 \* updatedRows[0] is undefined when the row is gone, and
                 \* res.json leaves an undefined member out
                 {Reply(P, V, call, 200,
                        IF found = {}
                        THEN [message |-> "Patient details updated"]
                        ELSE [message |-> "Patient details updated",
                              patient |-> echo(CHOOSE p \in found : TRUE)],
                        check)}

\* DELETE /api/patients/:uuid, statement by statement
deletePatientStep(call, P, V) ==
    LET id == call.req.id
        createdBy == call.caller
        found == {p \in P : p.uuid = id /\ p.created_by = createdBy}
        check == Query("select", {On("patients", createdBy)})
        delete == Query("delete", {On("patients", createdBy)})
    IN  CASE call.pc = 1 ->
                 IF found = {}
                 THEN {Reply(P, V, call, 404, Msg("Patient not found"), check)}
                 ELSE {Continue(P, V, call, call.acc, check)}
          [] OTHER ->
                 {Reply({p \in P : ~(p.uuid = id /\ p.created_by = createdBy)}, V, call,
                        200, Msg("Patient deleted successfully"), delete)}

\* POST /api/patients/:uuid/visits, statement by statement; acc is the number
\* behind the uuid the handler generated on entry
postVisitStep(call, P, V) ==
    LET patientUuid == call.req.id
        body == call.req.body
        createdBy == call.caller
        visitUuid == uuid("visit", call.acc)
        patientRows == {p \in P : p.uuid = patientUuid /\ p.created_by = createdBy}
        check == Query("select", {On("patients", createdBy)})
        insert == Query("insert", {On("visits", createdBy)})
        reselect == Query("select", {On("visits", Null)})
        V2 == V \cup {[id |-> call.acc, uuid |-> visitUuid, patient_id |-> patientUuid,
                       visit_date |-> body.date, diagnosis |-> body.diagnosis,
                       prescribed_medications |-> body.prescribed_medications,
                       notes |-> OrNull(body.notes), created_by |-> createdBy]}
        newVisitRows == {v \in V : v.uuid = visitUuid}
    IN  CASE call.pc = 1 ->
                 IF patientRows = {}
                 THEN {Reply(P, V, call, 404, Msg("Patient not found"), check)}
                 ELSE {Continue(P, V, call, call.acc, check)}
          [] call.pc = 2 ->
                 {Continue(P, V2, call, call.acc, insert)}
          [] OTHER ->
                 {Reply(P, V, call, 201,
                        IF newVisitRows = {}
                        THEN [message |-> "Visit added"]
                        ELSE [message |-> "Visit added",
                              visit |-> CHOOSE v \in newVisitRows : TRUE],
                        reselect)}

\* PUT /api/visits/:uuid, statement by statement
putVisitStep(call, P, V) ==
    LET id == call.req.id
        body == call.req.body
        createdBy == call.caller
        rows == {v \in V : v.uuid = id /\ v.created_by = createdBy}
        check == Query("select", {On("visits", createdBy)})
        update == Query("update", {On("visits", createdBy)})
        V2 == {IF v.uuid = id /\ v.created_by = createdBy
               THEN [v EXCEPT !.visit_date = body.visit_date, !.diagnosis = body.diagnosis,
                              !.prescribed_medications = body.prescribed_medications,
                              !.notes = OrNull(body.notes)]
               ELSE v : v \in V}
        echo(v) == [uuid |-> v.uuid, patient_id |-> v.patient_id,
                    visit_date |-> v.visit_date, diagnosis |-> v.diagnosis,
                    prescribed_medications |-> v.prescribed_medications,
                    notes |-> v.notes, created_by |-> v.created_by]
    IN  CASE call.pc = 1 ->
                 IF rows = {}
                 THEN {Reply(P, V, call, 404, Msg("Visit not found"), check)}
                 ELSE {Continue(P, V, call, call.acc, check)}
          [] call.pc = 2 ->
                 {Continue(P, V2, call, call.acc, update)}
          [] OTHER ->
                 {Reply(P, V, call, 200,
                        IF rows = {}
                        THEN [message |-> "Visit updated successfully"]
                        ELSE [message |-> "Visit updated successfully",
                              visit |-> echo(CHOOSE v \in rows : TRUE)],
                        check)}

\* DELETE /api/visits/:uuid, statement by statement
deleteVisitStep(call, P, V) ==
    LET id == call.req.id
        createdBy == call.caller
        rows == {v \in V : v.uuid = id /\ v.created_by = createdBy}
        check == Query("select", {On("visits", createdBy)})
        delete == Query("delete", {On("visits", createdBy)})
    IN  CASE call.pc = 1 ->
                 IF rows = {}
                 THEN {Reply(P, V, call, 404, Msg("Visit not found"), check)}
                 ELSE {Continue(P, V, call, call.acc, check)}
          [] OTHER ->
                 {Reply(P, {v \in V : ~(v.uuid = id /\ v.created_by = createdBy)}, call,
                        200, Msg("Visit deleted successfully"), delete)}

\* GET /api/dashboards, statement by statement; acc gathers the results
dashboardStep(call, P, V) ==
    LET createdBy == call.caller
        joined == {v \in V : v.created_by = createdBy
                             /\ \E p \in P : p.uuid = v.patient_id}
        recent(v) == LET p == CHOOSE x \in P : x.uuid = v.patient_id
                     IN  [visitUuid |-> v.uuid, patientUuid |-> p.uuid, name |-> p.name,
                          visit_date |-> v.visit_date, diagnosis |-> v.diagnosis,
                          prescribed_medications |-> v.prescribed_medications,
                          notes |-> v.notes]
        weeks == {WeekOf(v.visit_date) : v \in {x \in V : x.created_by = createdBy}}
        weekRow(w) == [week |-> w,
                       visits |-> Cardinality({v \in V : /\ v.created_by = createdBy
                                                          /\ WeekOf(v.visit_date) = w})]
        qPatients == Query("select", {On("patients", createdBy)})
        qRecent == Query("select", {On("visits", createdBy), On("patients", Null)})
        qVisits == Query("select", {On("visits", createdBy)})
    IN  CASE call.pc = 1 ->
                 {Continue(P, V, call,
                           [totalPatients |-> Cardinality({p \in P : p.created_by = createdBy})],
                           qPatients)}
          [] call.pc = 2 ->
                 {Continue(P, V, call,
                           [totalPatients |-> call.acc.totalPatients,
                            recentVisits |-> LET rows == LimitOffset(ordered, RecentLimit, 0)
                                             IN  [i \in 1..Len(rows) |-> recent(rows[i])]],
                           qRecent)
                  : ordered \in OrderByDesc(joined, [v \in joined |-> VisitDay(v)])}
          [] call.pc = 3 ->
                 {Continue(P, V, call,
                           [totalPatients |-> call.acc.totalPatients,
                            recentVisits |-> call.acc.recentVisits,
                            totalVisits |-> Cardinality({v \in V : v.created_by = createdBy})],
                           qVisits)}
          [] OTHER ->
                 {Reply(P, V, call, 200,
                        [totalPatients |-> call.acc.totalPatients,
                         totalVisits |-> call.acc.totalVisits,
                         recentVisits |-> call.acc.recentVisits,
                         visitsPerWeek |-> LET rows == LimitOffset(byWeek, WeeksLimit, 0)
                                           IN  Reverse([i \in 1..Len(rows) |-> weekRow(rows[i])])],
                        qVisits)
                  : byWeek \in OrderByDesc(weeks, [w \in weeks |-> WeekOrd(w)])}

\* a handler of one statement, or of reads only, run in one step
wholeStep(call, U, P, V, n) ==
    LET outs == CASE call.op = "new-patient" ->
                         newPatient(U, P, V, call.caller, call.req.body, n)
                  [] call.op = "list-patients" ->
                         listPatients(U, P, V, call.caller, call.req.query)
                  [] call.op = "get-patient" ->
                         getPatient(U, P, V, call.caller, call.req.id)
                  [] OTHER ->
                         listVisits(U, P, V, call.caller, call.req.query)
    IN  {[patients |-> o.patients, visits |-> o.visits, call |-> Idle,
          reply |-> [status |-> o.status, body |-> o.body, queries |-> o.queries]] : o \in outs}

\* the next statement of a call
StepOf(call, U, P, V, n) ==
    CASE call.op = "put-patient" -> putPatientStep(call, P, V)
      [] call.op = "delete-patient" -> deletePatientStep(call, P, V)
      [] call.op = "post-visit" -> postVisitStep(call, P, V)
      [] call.op = "put-visit" -> putVisitStep(call, P, V)
      [] call.op = "delete-visit" -> deleteVisitStep(call, P, V)
      [] call.op = "dashboard" -> dashboardStep(call, P, V)
      [] OTHER -> wholeStep(call, U, P, V, n)

\* the request slot s sends for an operation; the two slots submit different
\* values
RaceRequest(s, op) ==
    LET query == [page |-> Undefined, limit |-> Undefined, search |-> "",
                  startDate |-> Undefined, endDate |-> Undefined]
    IN  CASE op = "put-patient" ->
                 [id |-> uuid("patient", 1), slot |-> s,
                  body |-> [name |-> IF s = "r1" THEN "Cy" ELSE "Di", idNumber |-> "id1",
                            date_of_birth |-> "1990-05-21", gender |-> "F",
                            contact |-> "0712"]]
          [] op = "put-visit" ->
                 [id |-> uuid("visit", 1), slot |-> s,
                  body |-> [visit_date |-> "2025-01-08",
                            diagnosis |-> IF s = "r1" THEN "cold" ELSE "gout",
                            prescribed_medications |-> "rx", notes |-> Undefined]]
          [] op = "post-visit" ->
                 [id |-> uuid("patient", 1), slot |-> s,
                  body |-> [date |-> "2025-01-15", diagnosis |-> "flu",
                            prescribed_medications |-> "rx", notes |-> Undefined]]
          [] op = "new-patient" ->
                 [id |-> Null, slot |-> s,
                  body |-> [name |-> "Eve", idNumber |-> IF s = "r1" THEN "id3" ELSE "id1",
                            date_of_birth |-> "1990-05-21", gender |-> "F",
                            contact |-> "0712"]]
          [] op \in {"list-patients", "list-visits"} ->
                 [id |-> Null, slot |-> s, query |-> query]
          [] op \in {"delete-patient", "get-patient"} ->
                 [id |-> uuid("patient", 1), slot |-> s]
          [] op = "delete-visit" -> [id |-> uuid("visit", 1), slot |-> s]
          [] OTHER -> [id |-> Null, slot |-> s]

\* a request passes the gate and the validation of its handler, which stops at
\* its first db.execute
Begin(s, op) ==
    /\ calls[s] = Idle
    /\ calls.begun < MaxCalls
    /\ verifyToken(jar[SlotClient(s)], now).pass
    /\ op = "post-visit" => nextVid <= MaxRaceVisits
    /\ op = "new-patient" => nextPid <= MaxRacePatients
    /\ calls' = [calls EXCEPT
                    ![s] = [op |-> op, cookie |-> jar[SlotClient(s)],
                            caller |-> TokenInfo(jar[SlotClient(s)]).uuid,
                            req |-> RaceRequest(s, op), pc |-> 1,
                            acc |-> IF op = "post-visit" THEN nextVid ELSE 0,
                            queries |-> <<>>],
                    !.begun = @ + 1]
    /\ nextVid' = IF op = "post-visit" THEN nextVid + 1 ELSE nextVid
    /\ UNCHANGED <<users, patients, visits, nextUser, nextPid, now, jar, regLog, last>>

\* the response of the call in slot s
Answer(s, reply) ==
    [op |-> calls[s].op, cookie |-> calls[s].cookie, at |-> now, req |-> calls[s].req,
     caller |-> calls[s].caller, status |-> reply.status, body |-> reply.body,
     queries |-> reply.queries, setCookie |-> NoCookie]

\* the store runs the statement the call in slot s waits for
Step(s) ==
    /\ calls[s] # Idle
    /\ \E r \in StepOf(calls[s], users, patients, visits, nextPid) :
          /\ patients' = r.patients
          /\ visits' = r.visits
          /\ calls' = [calls EXCEPT ![s] = r.call]
          /\ last' = IF r.reply.status = 0 THEN last ELSE Answer(s, r.reply)
    /\ nextPid' = IF Cardinality(patients') > Cardinality(patients)
                  THEN nextPid + 1 ELSE nextPid
    /\ UNCHANGED <<users, nextUser, nextVid, now, jar, regLog>>

\* the statement the call in slot s waits for throws (the connection is lost,
\* the pool is exhausted, ...): the catch block answers
Fail(s) ==
    /\ calls[s] # Idle
    /\ calls' = [calls EXCEPT ![s] = Idle]
    /\ last' = Answer(s, [status |-> Catch(calls[s].op).status,
                          body |-> Catch(calls[s].op).body,
                          queries |-> calls[s].queries])
    /\ UNCHANGED <<users, patients, visits, nextUser, nextPid, nextVid, now, jar, regLog>>

\* one account in two browsers, holding both patients and a visit
InitRace ==
    /\ users = ListUsers
    /\ patients = ListPatientRows(uuid("user", 1))
    /\ \E plan \in {<<<<1, "2025-01-06">>>>, <<<<2, "2025-01-06">>>>} :
          visits = PostAll(ListPatientRows(uuid("user", 1)), plan)
    /\ nextUser = 3
    /\ nextPid = 3
    /\ nextVid = 2
    /\ now = 0
    /\ jar = [c \in Clients |->
                 (CHOOSE o \in login(ListUsers, {}, {},
                                     [email |-> "a@x.com", password |-> "p1"], 0)
                      : TRUE).setCookie]
    /\ regLog = {<<"a@x.com", "p1">>, <<"b@x.com", "p1">>}
    /\ last = [op |-> "init", cookie |-> NoCookie, at |-> 0, req |-> NoRequest,
               caller |-> Null, status |-> 0, body |-> Msg(""), queries |-> <<>>,
               setCookie |-> NoCookie]
    /\ calls = NoCalls

RaceOps ==
    {"put-patient", "delete-patient", "post-visit", "put-visit", "delete-visit",
     "dashboard"}

NextRace ==
    \/ \E s \in Slots, op \in RaceOps : Begin(s, op)
    \/ \E s \in Slots : Step(s)

SpecRace == InitRace /\ [][NextRace]_vars

FailOps == RaceOps \cup {"new-patient", "list-patients", "get-patient", "list-visits"}

NextFail ==
    \/ \E s \in Slots, op \in FailOps : Begin(s, op)
    \/ \E s \in Slots : Step(s)
    \/ \E s \in Slots : Fail(s)

SpecFail == InitRace /\ [][NextFail]_vars

\* every statement handed to the store comes back, with a result or an error
FairSpecFail ==
    SpecFail /\ \A s \in Slots : WF_vars(Step(s) \/ Fail(s))

----------------------------------------------------------------------------
(* Properties of the authentication core (SpecAuth) *)

ProtectedOps ==
    {"check-token", "new-patient", "list-patients", "get-patient", "put-patient",
     "delete-patient", "post-visit", "list-visits", "get-visit", "put-visit",
     "delete-visit", "dashboard"}

\* the cookie of the last request verifies at the time of the request
LastVerifies == JwtVerifies(last.cookie, tokenSecretKey, last.at)

\* the gate let the last request through to its handler
LastPassed == last.caller # Null

\* C3, with the empty cookie told apart: a protected request with no cookie, or
\* with an empty one,
\* is answered 403 by the gate; with a non-empty cookie that fails verification
\* it is answered 401; with a cookie that verifies the handler runs with the
\* decoded claims, and the answer is neither 401 nor 403.
C3_GateOutcomes ==
    last.op \in ProtectedOps =>
        /\ last.cookie.kind \in {"absent", "empty"} =>
               last.status = 403 /\ ~LastPassed
        /\ (last.cookie.kind \notin {"absent", "empty"} /\ ~LastVerifies) =>
               last.status = 401 /\ ~LastPassed
        /\ LastVerifies =>
               last.caller = last.cookie.claims.uuid /\ last.status \notin {401, 403}

\* C3 as stated: an absent cookie gives 403, every cookie that is present and
\* fails verification gives 401 (an invalid cookie never gives 403).
C3_AsStated ==
    last.op \in ProtectedOps =>
        /\ last.cookie.kind = "absent" => last.status = 403
        /\ (last.cookie.kind # "absent" /\ ~LastVerifies) => last.status = 401
        /\ LastVerifies => LastPassed /\ last.status \notin {401, 403}

\* an empty cookie was presented and refused as if none had been sent
C3_Witness ==
    last.op = "check-token" /\ last.cookie.kind = "empty" /\ last.status = 403

\* the last request carried a token that the server signed
LastSignedByServer ==
    /\ last.cookie.kind = "jwt"
    /\ last.cookie.sig = Mac(last.cookie.claims, tokenSecretKey)

\* C5: a token issued at time t with a valid signature is rejected with 401 at
\* every verification time >= t + 1 hour and accepted at every time before.
C5_ExpiresAfterOneHour ==
    (last.op \in ProtectedOps /\ LastSignedByServer) =>
        /\ last.at >= last.cookie.claims.iat + TokenLifetime =>
               last.status = 401 /\ ~LastPassed
        /\ last.at < last.cookie.claims.iat + TokenLifetime =>
               last.status = 200 /\ LastPassed

\* a correctly signed token was presented exactly one hour after its issuance
C5_Witness ==
    /\ last.op = "check-token"
    /\ LastSignedByServer
    /\ last.at = last.cookie.claims.iat + TokenLifetime
    /\ last.status = 401

\* C6 as stated: a registration carrying a free email and a password is answered
\* 201, and a later login with that email and password is answered 200 and sets
\* a cookie the gate accepts.
C6_RegisterThenLogin ==
    [][/\ (/\ last'.op = "register"
           /\ last'.req.body.password # Undefined
           /\ \A u \in users : u.email # last'.req.body.email)
          => last'.status = 201
       /\ (/\ last'.op = "login"
           /\ <<last'.req.body.email, last'.req.body.password>> \in regLog)
          => /\ last'.status = 200
             /\ verifyToken(last'.setCookie, now').pass]_vars

C8_TokenCarriesUser ==
    /\ (last.op = "login" /\ last.status = 200) =>
           \E u \in users :
               /\ u.email = last.req.body.email
               /\ last.setCookie.kind = "jwt"
               /\ last.setCookie.claims.uuid = u.uuid
               /\ last.setCookie.claims.firstName = u.first_name
               /\ last.setCookie.claims.lastName = u.last_name
               /\ last.setCookie.claims.email = u.email
    /\ (last.op \in ProtectedOps /\ LastPassed) =>
           \E u \in users : u.uuid = last.caller /\ u.email = last.cookie.claims.email

\* a login succeeded and its token was then used on a protected route
C8_Witness ==
    /\ last.op = "check-token"
    /\ LastPassed
    /\ \E u \in users : u.uuid = last.caller

----------------------------------------------------------------------------
(* Properties of the ownership-scoped routes (SpecData) *)

PatientWrites == {"put-patient", "delete-patient", "post-visit"}
VisitWrites == {"put-visit", "delete-visit"}

\* the request recorded in r names, in its path, a row owned by somebody else
NamesForeignRow(r, P, V) ==
    \/ r.op \in PatientWrites /\ \E p \in P : p.uuid = r.req.id /\ p.created_by # r.caller
    \/ r.op \in VisitWrites /\ \E v \in V : v.uuid = r.req.id /\ v.created_by # r.caller

\* an authenticated PUT, DELETE or nested POST leaves every row of the other
\* users as it was and adds no visit under a patient of another user
ForeignRowsKept ==
    /\ \A p \in patients : p.created_by # last'.caller => p \in patients'
    /\ \A v \in visits : v.created_by # last'.caller => v \in visits'
    /\ \A v \in visits' \ visits :
           ~\E p \in patients : p.uuid = v.patient_id /\ p.created_by # last'.caller

\* C1, with validation ahead of the lookup: no PUT or DELETE on a patient or a
\* visit and no nested POST
\* issued by A changes, removes or adds a child to a row created by B; when the
\* path names B's row the answer is 404, or 400 when the body of the PUT or POST
\* lacks a required field, and B's rows are unchanged.
C1_NoCrossUserWrites ==
    [][(last'.op \in PatientWrites \cup VisitWrites /\ last'.caller # Null) =>
           /\ ForeignRowsKept
           /\ NamesForeignRow(last', patients, visits) =>
                  /\ last'.status \in {400, 404}
                  /\ last'.status = 400 => last'.op \notin {"delete-patient", "delete-visit"}
                  /\ UNCHANGED <<patients, visits>>]_vars

\* C1 as stated: such a request is always answered 404.
C1_AsStated ==
    [][(last'.op \in PatientWrites \cup VisitWrites /\ last'.caller # Null) =>
           /\ ForeignRowsKept
           /\ NamesForeignRow(last', patients, visits) =>
                  /\ last'.status = 404
                  /\ UNCHANGED <<patients, visits>>]_vars

\* A tried to delete a visit of B, named by its uuid, and B still holds it
C1_Witness ==
    /\ last.op = "delete-visit"
    /\ last.status = 404
    /\ last.caller # Null
    /\ \E v \in visits : v.uuid = last.req.id /\ v.created_by # last.caller
    /\ \E p \in patients : p.created_by # last.caller

\* the patient and visit rows a success body of the last response shows, each as
\* <<table, uuid, the columns shown>>
ShownRows ==
    CASE last.op = "list-patients" /\ last.status = 200 ->
            {<<"patients", last.body.items[i].uuid,
               [name |-> last.body.items[i].name, id_number |-> last.body.items[i].idNumber]>>
             : i \in 1..Len(last.body.items)}
      [] last.op = "get-patient" /\ last.status = 200 ->
            {<<"patients", last.body.uuid,
               [name |-> last.body.name, id_number |-> last.body.id_number]>>}
            \cup {<<"visits", last.body.visits[i].uuid,
                    [visit_date |-> last.body.visits[i].date]>>
                  : i \in 1..Len(last.body.visits)}
      [] last.op = "put-patient" /\ last.status = 200 ->
            {<<"patients", last.body.patient.uuid,
               [name |-> last.body.patient.name, id_number |-> last.body.patient.id_number]>>}
      [] last.op = "post-visit" /\ last.status = 201 ->
            {<<"visits", last.body.visit.uuid, [visit_date |-> last.body.visit.visit_date]>>}
      [] last.op = "list-visits" /\ last.status = 200 ->
            {<<"visits", last.body.items[i].uuid,
               [visit_date |-> last.body.items[i].visit_date]>>
             : i \in 1..Len(last.body.items)}
            \cup {<<"patients", last.body.items[i].patient_id,
                    [name |-> last.body.items[i].patient_name,
                     id_number |-> last.body.items[i].patient_id_number]>>
                  : i \in {j \in 1..Len(last.body.items) :
                              last.body.items[j].patient_name # Null}}
      [] last.op = "get-visit" /\ last.status = 200 ->
            {<<"visits", last.body.uuid, [visit_date |-> last.body.visit_date]>>}
            \cup (IF last.body.patient_name # Null
                  THEN {<<"patients", last.body.patient_id,
                          [name |-> last.body.patient_name,
                           id_number |-> last.body.patient_id_number]>>}
                  ELSE {})
      [] last.op = "put-visit" /\ last.status = 200 ->
            {<<"visits", last.body.visit.uuid, [visit_date |-> last.body.visit.visit_date]>>}
      [] last.op = "dashboard" /\ last.status = 200 ->
            {<<"visits", last.body.recentVisits[i].visitUuid,
               [visit_date |-> last.body.recentVisits[i].visit_date]>>
             : i \in 1..Len(last.body.recentVisits)}
            \cup {<<"patients", last.body.recentVisits[i].patientUuid,
                    [name |-> last.body.recentVisits[i].name]>>
                  : i \in 1..Len(last.body.recentVisits)}
      [] OTHER -> {}

\* the row shown is a row of the caller
FromCallersRow(shown) ==
    IF shown[1] = "patients"
    THEN \E p \in patients :
             /\ p.uuid = shown[2]
             /\ p.created_by = last.caller
             /\ p.name = shown[3].name
             /\ "id_number" \in DOMAIN shown[3] => p.id_number = shown[3].id_number
    ELSE \E v \in visits :
             /\ v.uuid = shown[2]
             /\ v.created_by = last.caller
             /\ v.visit_date = shown[3].visit_date

\* every datum of a success response comes from a row of the caller
ShownRowsAreCallers == \A shown \in ShownRows : FromCallersRow(shown)

\* every SELECT of the last request requires created_by = caller of every table it reads
ReadsFilteredByCaller ==
    \A i \in 1..Len(last.queries) :
        last.queries[i].kind = "select" =>
            \A t \in last.queries[i].reads : t.owner = last.caller

\* C2 as stated: every patient or visit datum of a success response comes from a
\* row whose created_by is the caller, and every read is filtered by
\* created_by = caller.
C2_ReadsScopedToCaller ==
    (last.op \in ProtectedOps /\ LastPassed) =>
        ShownRowsAreCallers /\ ReadsFilteredByCaller

\* C4: no query of a patient, visit or dashboard handler is issued for a request
\* whose token the gate has not verified; a request answered 401 or 403 issues
\* no query and leaves the store as it was.
C4_NoQueryBeforeGate ==
    [][last'.op \in ProtectedOps =>
           /\ last'.queries # <<>> =>
                  JwtVerifies(last'.cookie, tokenSecretKey, last'.at)
           /\ last'.status \in {401, 403} =>
                  last'.queries = <<>> /\ UNCHANGED store]_vars

\* a request with a tampered token named an existing patient and was refused
C4_Witness ==
    /\ last.op = "delete-patient"
    /\ last.status = 401
    /\ last.cookie.kind = "jwt"
    /\ \E p \in patients : p.uuid = last.req.id

\* what the client sees of an outcome
Seen(outs) == {[status |-> o.status, body |-> o.body] : o \in outs}

\* C9: for GET /api/patients/:uuid and GET /api/visits/:uuid the response for an
\* id that exists under another owner equals the response for an id that does
\* not exist: 404 with the same body.
C9_ForeignLooksMissing ==
    \A u \in users :
        /\ \A p \in patients :
               p.created_by # u.uuid =>
                   /\ Seen(getPatient(users, patients, visits, u.uuid, p.uuid))
                          = Seen(getPatient(users, patients, visits, u.uuid, "patient-0"))
                   /\ \A o \in getPatient(users, patients, visits, u.uuid, p.uuid) :
                          o.status = 404
        /\ \A v \in visits :
               v.created_by # u.uuid =>
                   /\ Seen(getVisit(users, patients, visits, u.uuid, v.uuid))
                          = Seen(getVisit(users, patients, visits, u.uuid, "visit-0"))
                   /\ \A o \in getVisit(users, patients, visits, u.uuid, v.uuid) :
                          o.status = 404

\* a caller asked for an existing patient of another user and got 404
C9_Witness ==
    /\ last.op = "get-patient"
    /\ last.status = 404
    /\ LastPassed
    /\ \E p \in patients : p.uuid = last.req.id /\ p.created_by # last.caller

\* the rows of a table that the caller owns
Own(rows, caller) == {r \in rows : r.created_by = caller}

\* C10 as stated: the outcome of an operation depends only on the request and on
\* the rows the caller owns: with the rows of the other users removed from the
\* store, every request of the caller gets the same response.
C10_OutcomeIgnoresOthersRows ==
    \A u \in users :
        LET me == u.uuid
            P == Own(patients, me)
            V == Own(visits, me)
        IN  /\ \A b \in CreateBodies :
                   Seen(newPatient(users, patients, visits, me, b, nextPid))
                       = Seen(newPatient(users, P, V, me, b, nextPid))
            /\ \A q \in ListQueries :
                   /\ Seen(listPatients(users, patients, visits, me, q))
                          = Seen(listPatients(users, P, V, me, q))
                   /\ Seen(listVisits(users, patients, visits, me, q))
                          = Seen(listVisits(users, P, V, me, q))
            /\ \A id \in PatientUuids :
                   /\ Seen(getPatient(users, patients, visits, me, id))
                          = Seen(getPatient(users, P, V, me, id))
                   /\ Seen(deletePatient(users, patients, visits, me, id))
                          = Seen(deletePatient(users, P, V, me, id))
                   /\ \A b \in PutBodies :
                          Seen(putPatient(users, patients, visits, me, id, b))
                              = Seen(putPatient(users, P, V, me, id, b))
                   /\ \A b \in PostVisitBodies :
                          Seen(postVisit(users, patients, visits, me, id, b, nextVid))
                              = Seen(postVisit(users, P, V, me, id, b, nextVid))
            /\ \A id \in VisitUuids :
                   /\ Seen(getVisit(users, patients, visits, me, id))
                          = Seen(getVisit(users, P, V, me, id))
                   /\ Seen(deleteVisit(users, patients, visits, me, id))
                          = Seen(deleteVisit(users, P, V, me, id))
                   /\ \A b \in PutVisitBodies :
                          Seen(putVisit(users, patients, visits, me, id, b))
                              = Seen(putVisit(users, P, V, me, id, b))
            /\ Seen(dashboard(users, patients, visits, me))
                   = Seen(dashboard(users, P, V, me))

----------------------------------------------------------------------------
(* Properties of the list routes (SpecList) *)

Lists == {"list-patients", "list-visits"}

\* the page and the limit a list request is served with
PageOf(query) == NumberOr(query.page, DefaultPage)
LimitOf(query) == NumberOr(query.limit, DefaultLimit)

\* the patients of the caller whose name or id number contains the search text
MatchingPatients(caller, query) ==
    {p \in patients :
        /\ p.created_by = caller
        /\ \/ Like(p.name, OrEmpty(query.search))
           \/ Like(p.id_number, OrEmpty(query.search))}

\* the visits of the caller that contain the search text (in the name or the id
\* number of their patient, the diagnosis or the medications) and lie in the
\* date range, when both ends of one are given
MatchingVisits(caller, query) ==
    {v \in visits :
        /\ v.created_by = caller
        /\ \/ Like(JoinedPatient(patients, v).name, OrEmpty(query.search))
           \/ Like(JoinedPatient(patients, v).id_number, OrEmpty(query.search))
           \/ Like(v.diagnosis, OrEmpty(query.search))
           \/ Like(v.prescribed_medications, OrEmpty(query.search))
        /\ (~Falsy(query.startDate) /\ ~Falsy(query.endDate)) =>
              /\ DayOf(query.startDate) <= DayOf(v.visit_date)
              /\ DayOf(v.visit_date) <= DayOf(query.endDate)}

\* C11: for the patient list and the visit list the total of a 200 response is
\* the number of rows of the caller that match the search and date filter,
\* whatever the page and the limit, and the items are never more than the limit.
C11_TotalCountsMatches ==
    (last.op \in Lists /\ last.status = 200) =>
        /\ last.op = "list-patients" =>
               last.body.total = Cardinality(MatchingPatients(last.caller, last.req.query))
        /\ last.op = "list-visits" =>
               last.body.total = Cardinality(MatchingVisits(last.caller, last.req.query))
        /\ Len(last.body.items) <= LimitOf(last.req.query)

\* a visit list with a date range that leaves out a visit of the caller, cut to
\* fewer items than the total by the limit
C11_Witness ==
    /\ last.op = "list-visits"
    /\ last.status = 200
    /\ ~Falsy(last.req.query.startDate)
    /\ last.body.total < Cardinality({v \in visits : v.created_by = last.caller})
    /\ 0 < Len(last.body.items)
    /\ Len(last.body.items) < last.body.total

\* the query for one page of a listing without date range
PageQuery(page, limit, search) ==
    [page |-> page, limit |-> limit, search |-> search,
     startDate |-> Undefined, endDate |-> Undefined]

ItemUuids(items) == {items[i].uuid : i \in 1..Len(items)}

Prefix(seq, n) == SubSeq(seq, 1, IF n < Len(seq) THEN n ELSE Len(seq))

\* pages 1 and 2 of one listing, answered one after the other on the same
\* store, are disjoint and together are the head of an unpaginated answer
\* (DefaultLimit exceeds the rows of the store)
Partition(page1, page2, full, limit) ==
    \A o1 \in page1, o2 \in page2 :
        /\ ItemUuids(o1.body.items) \cap ItemUuids(o2.body.items) = {}
        /\ \E o \in full :
               o1.body.items \o o2.body.items = Prefix(o.body.items, 2 * NumberOf(limit))

PatientPagesPartition ==
    \A u \in users, limit \in {"1", "2"}, search \in {"", "Bo"} :
        Partition(listPatients(users, patients, visits, u.uuid, PageQuery("1", limit, search)),
                  listPatients(users, patients, visits, u.uuid, PageQuery("2", limit, search)),
                  listPatients(users, patients, visits, u.uuid, PageQuery(Undefined, Undefined, search)),
                  limit)

VisitPagesPartition ==
    \A u \in users, limit \in {"1", "2"}, search \in {"", "Bo"} :
        Partition(listVisits(users, patients, visits, u.uuid, PageQuery("1", limit, search)),
                  listVisits(users, patients, visits, u.uuid, PageQuery("2", limit, search)),
                  listVisits(users, patients, visits, u.uuid, PageQuery(Undefined, Undefined, search)),
                  limit)

\* C12 as stated: for the patient list and the visit list, on a fixed store,
\* the items of page 1 and page 2 with the same limit are disjoint and their
\* concatenation is the first 2*limit rows of the unpaginated ordered result,
\* also when rows share the sort key.
C12_PagesPartition == PatientPagesPartition /\ VisitPagesPartition

\* a page or limit parameter that was supplied and is not an integer >= 1
InvalidPaging(x) == x # Undefined /\ ~(IsNumeral(x) /\ NumberOf(x) >= 1)

\* C13 as stated: a list request whose supplied page or limit is not an
\* integer >= 1 is answered 400 and returns no items; only page >= 1 and
\* limit >= 1 are accepted.
C13_InvalidPagingRejected ==
    (last.op \in Lists /\ LastPassed) =>
        LET bad == \/ InvalidPaging(last.req.query.page)
                   \/ InvalidPaging(last.req.query.limit)
        IN  /\ bad => last.status = 400 /\ "items" \notin DOMAIN last.body
            /\ ~bad => last.status = 200

\* the items are in descending order of the AUTO_INCREMENT id of their rows
NewestFirst(items) ==
    \A i, j \in 1..Len(items) : i < j => items[i].id > items[j].id

PatientsNewestFirst ==
    (last.op = "list-patients" /\ last.status = 200) => NewestFirst(last.body.items)

VisitsNewestFirst ==
    (last.op = "list-visits" /\ last.status = 200) => NewestFirst(last.body.items)

\* C14 as stated: the items of the patient list and of the visit list are
\* ordered most recently created first: of two returned rows the one inserted
\* later comes earlier, whatever their visit dates.
C14_NewestFirst == PatientsNewestFirst /\ VisitsNewestFirst

----------------------------------------------------------------------------
(* Properties of validation, conflicts, deletes, updates and nested creates
   (SpecData) *)

\* the request recorded in r lacks a field its route requires, or asks a list
\* route for a page or a limit below 1
FailsValidation(r) ==
    \/ /\ r.op = "new-patient"
       /\ \E f \in {"name", "idNumber", "date_of_birth", "gender", "contact"} :
              Falsy(r.req.body[f])
    \/ /\ r.op = "post-visit"
       /\ \E f \in {"date", "diagnosis", "prescribed_medications"} : Falsy(r.req.body[f])
    \/ /\ r.op = "put-patient"
       /\ \E f \in {"name", "gender", "date_of_birth"} : Falsy(r.req.body[f])
    \/ /\ r.op = "put-visit"
       /\ \E f \in {"visit_date", "diagnosis", "prescribed_medications"} :
              Falsy(r.req.body[f])
    \/ /\ r.op \in {"list-patients", "list-visits"}
       /\ (PageOf(r.req.query) <= 0 \/ LimitOf(r.req.query) <= 0)

\* C15: a request answered 400 has issued no data-store operation and leaves the
\* store unchanged; a request that fails validation is answered 400 whether or
\* not the row it names exists (validation comes before the existence check and
\* before any insert or update).
C15_ValidationBeforeStore ==
    [][(last'.op \in ProtectedOps /\ last'.caller # Null) =>
           /\ last'.status = 400 => last'.queries = <<>> /\ UNCHANGED store
           /\ FailsValidation(last') => last'.status = 400]_vars

\* an update with a missing field named a patient the caller does not hold and
\* was refused for the field, not for the patient
C15_Witness ==
    /\ last.op = "put-patient"
    /\ last.status = 400
    /\ last.caller # Null
    /\ ~\E p \in patients : p.uuid = last.req.id /\ p.created_by = last.caller

\* the uuid the last successful create gave its patient
NewestPatient == uuid("patient", nextPid - 1)

\* C16: a create with all fields whose id number no patient carries is answered
\* 201 and adds the patient; with an id number some patient carries it is
\* answered 409, not 500, and the patients are unchanged; a GET of the detail of
\* the patient just created returns it with visits = [].
C16_DuplicateIdNumberConflict ==
    [][/\ (last'.op = "new-patient" /\ last'.caller # Null /\ ~FailsValidation(last')) =>
              IF \E p \in patients : p.id_number = last'.req.body.idNumber
              THEN last'.status = 409 /\ patients' = patients
              ELSE /\ last'.status = 201
                   /\ \E p \in patients' \ patients :
                          /\ patients' = patients \cup {p}
                          /\ p.id_number = last'.req.body.idNumber
                          /\ p.name = last'.req.body.name
                          /\ p.created_by = last'.caller
       /\ (/\ last.op = "new-patient" /\ last.status = 201
           /\ last'.op = "get-patient" /\ last'.caller = last.caller
           /\ last'.req.id = NewestPatient) =>
              /\ last'.status = 200
              /\ last'.body.uuid = NewestPatient
              /\ last'.body.id_number = last.req.body.idNumber
              /\ last'.body.visits = <<>>]_vars

\* a second create with an id number in use was answered 409
C16_Witness ==
    /\ last.op = "new-patient"
    /\ last.status = 409
    /\ \E p \in patients : p.id_number = last.req.body.idNumber

\* the request recorded in r, served on users U and patients P, asks the store
\* for a row that collides on a unique column with another row
ViolatesUniqueness(r, U, P) ==
    \/ /\ r.op = "register"
       /\ Undefined \notin {r.req.body.firstName, r.req.body.lastName,
                            r.req.body.email, r.req.body.repeatPassword}
       /\ \E u \in U : u.email = r.req.body.email
    \/ /\ r.op = "new-patient" /\ r.caller # Null /\ ~FailsValidation(r)
       /\ \E p \in P : p.id_number = r.req.body.idNumber
    \/ /\ r.op = "put-patient" /\ r.caller # Null /\ ~FailsValidation(r)
       /\ \E p \in P : p.uuid = r.req.id /\ p.created_by = r.caller
       /\ ~Falsy(r.req.body.idNumber)
       /\ \E p \in P : p.uuid # r.req.id /\ p.id_number = r.req.body.idNumber

\* C17 as stated: every uniqueness violation (register with an email in use,
\* create Patient with an id number in use, update Patient to an id number in
\* use) is answered 409, never 500, and the store is unchanged.
C17_ConflictsAnswered409 ==
    [][ViolatesUniqueness(last', users, patients) =>
           last'.status = 409 /\ UNCHANGED store]_vars

Deletes == {"delete-patient", "delete-visit"}

\* the row a delete request names exists and belongs to the caller
OwnsTarget(r, P, V) ==
    \/ r.op \in {"delete-patient", "put-patient"}
       /\ \E p \in P : p.uuid = r.req.id /\ p.created_by = r.caller
    \/ r.op \in {"delete-visit", "put-visit"}
       /\ \E v \in V : v.uuid = r.req.id /\ v.created_by = r.caller

\* the uuids of the rows of both tables
RowUuids(P, V) == {p.uuid : p \in P} \cup {v.uuid : v \in V}

\* C18: a DELETE by the owner of a record is answered 200 and removes it; the
\* same DELETE repeated right after is answered 404; no DELETE is answered 500;
\* a record that is gone stays gone.
C18_DeleteThenNotFound ==
    [][/\ (last'.op \in Deletes /\ last'.caller # Null) =>
              /\ last'.status \in {200, 404}
              /\ (last'.status = 200) = OwnsTarget(last', patients, visits)
              /\ last'.status = 200 => last'.req.id \notin RowUuids(patients', visits')
       /\ (/\ last.op \in Deletes /\ last.status = 200
           /\ last'.op = last.op /\ last'.req = last.req /\ last'.caller = last.caller) =>
              last'.status = 404 /\ UNCHANGED store
       /\ \A n \in 1..(nextPid - 1) :
              uuid("patient", n) \notin RowUuids(patients, visits)
                  => uuid("patient", n) \notin RowUuids(patients', visits')
       /\ \A n \in 1..(nextVid - 1) :
              uuid("visit", n) \notin RowUuids(patients, visits)
                  => uuid("visit", n) \notin RowUuids(patients', visits')]_vars

\* a caller asked again for the deletion of a patient that had been created and
\* deleted, and was told it is not there
C18_Witness ==
    /\ last.op = "delete-patient"
    /\ last.status = 404
    /\ last.caller # Null
    /\ last.req.id \in {uuid("patient", n) : n \in 1..(nextPid - 1)}
    /\ last.req.id \notin RowUuids(patients, visits)

\* row q is row p with (at most) the listed columns changed
SameExcept(p, q, columns) ==
    /\ DOMAIN p = DOMAIN q
    /\ \A c \in DOMAIN p \ columns : p[c] = q[c]

\* C19: a PUT on a patient or a visit that the caller does not hold (or that
\* does not exist) is answered 404 and changes no row; a PUT answered 200
\* changes the mutable columns of the target row and nothing else: no other
\* row, and not the uuid or the created_by of the target.
C19_UpdateTouchesOnlyTarget ==
    [][(last'.op \in {"put-patient", "put-visit"} /\ last'.caller # Null) =>
           /\ (~FailsValidation(last') /\ ~OwnsTarget(last', patients, visits)) =>
                  last'.status = 404
           /\ last'.status # 200 => UNCHANGED store
           /\ last'.status = 200 =>
                  /\ OwnsTarget(last', patients, visits)
                  /\ users' = users
                  /\ last'.op = "put-patient" =>
                         /\ visits' = visits
                         /\ \E p \in patients, q \in patients' :
                                /\ p.uuid = last'.req.id /\ p.created_by = last'.caller
                                /\ patients' = (patients \ {p}) \cup {q}
                                /\ SameExcept(p, q, {"name", "id_number", "date_of_birth",
                                                     "gender", "contact"})
                                /\ q.name = last'.req.body.name
                  /\ last'.op = "put-visit" =>
                         /\ patients' = patients
                         /\ \E v \in visits, w \in visits' :
                                /\ v.uuid = last'.req.id /\ v.created_by = last'.caller
                                /\ visits' = (visits \ {v}) \cup {w}
                                /\ SameExcept(v, w, {"visit_date", "diagnosis",
                                                     "prescribed_medications", "notes"})
                                /\ w.visit_date = last'.req.body.visit_date]_vars

\* a patient was renamed by its owner while another user holds a patient too
C19_Witness ==
    /\ last.op = "put-patient"
    /\ last.status = 200
    /\ \E p \in patients : p.uuid = last.req.id /\ p.name = last.req.body.name
    /\ \E p \in patients : p.created_by # last.caller

\* C20: a nested create adds a Visit only if a Patient with the uuid of the path
\* and created_by = caller exists; on 201 exactly one Visit is added, with
\* patient_id = that uuid and created_by = caller; when the parent check fails
\* the answer is 404 and no Visit is added.
C20_VisitOnlyUnderOwnPatient ==
    [][(last'.op = "post-visit" /\ last'.caller # Null) =>
           LET parent == \E p \in patients :
                             p.uuid = last'.req.id /\ p.created_by = last'.caller
           IN  /\ (~FailsValidation(last') /\ ~parent) =>
                      last'.status = 404 /\ visits' = visits
               /\ (~FailsValidation(last') /\ parent) => last'.status = 201
               /\ last'.status # 201 => visits' = visits
               /\ last'.status = 201 =>
                      /\ parent
                      /\ \E v \in visits' \ visits :
                             /\ visits' = visits \cup {v}
                             /\ v.patient_id = last'.req.id
                             /\ v.created_by = last'.caller
                             /\ v.visit_date = last'.req.body.date
               /\ UNCHANGED <<users, patients>>]_vars

\* a visit was added under a patient of the caller while another user holds a
\* patient too
C20_Witness ==
    /\ last.op = "post-visit"
    /\ last.status = 201
    /\ \E v \in visits : v.patient_id = last.req.id /\ v.created_by = last.caller
    /\ \E p \in patients : p.created_by # last.caller

\* C21: a create Patient answered 201 adds exactly one patient row, owned by the
\* caller, with a uuid no existing patient has; every existing patient row and
\* every visit row stays as it was.
C21_CreateAddsOneOwnedRow ==
    [][(last'.op = "new-patient" /\ last'.status = 201) =>
           /\ last'.caller # Null
           /\ \E p \in patients' \ patients :
                  /\ patients' = patients \cup {p}
                  /\ Cardinality(patients') = Cardinality(patients) + 1
                  /\ p.created_by = last'.caller
                  /\ \A q \in patients : q.uuid # p.uuid
           /\ UNCHANGED <<users, visits>>]_vars

\* a patient was created while another patient of another user exists
C21_Witness ==
    /\ last.op = "new-patient"
    /\ last.status = 201
    /\ \E p \in patients : p.created_by = last.caller /\ p.id_number = last.req.body.idNumber
    /\ \E p \in patients : p.created_by # last.caller

----------------------------------------------------------------------------
(* Properties of the patient detail and the dashboard (SpecRead) *)

\* minimum of two numbers
Min(a, b) == IF a < b THEN a ELSE b

\* C22: GET /api/patients/:uuid naming a patient of the caller answers 200 with
\* that patient and exactly the visits whose patient_id is the patient and whose
\* owner is the caller, each once, by visit date descending; a patient without
\* visits is answered with visits = [] and not with 404.
C22_DetailListsOwnVisits ==
    (last.op = "get-patient" /\ last.caller # Null) =>
        \A p \in patients :
            (p.uuid = last.req.id /\ p.created_by = last.caller) =>
                LET mine == {v \in visits : v.patient_id = p.uuid /\ v.created_by = last.caller}
                    shown == last.body.visits
                IN  /\ last.status = 200
                    /\ last.body.uuid = p.uuid
                    /\ last.body.name = p.name
                    /\ last.body.id_number = p.id_number
                    /\ last.body.gender = p.gender
                    /\ last.body.contact = p.contact
                    /\ last.body.date_of_birth = p.date_of_birth
                    /\ Len(shown) = Cardinality(mine)
                    /\ {shown[i].uuid : i \in 1..Len(shown)} = {v.uuid : v \in mine}
                    /\ \A i \in 1..Len(shown) :
                           \E v \in mine :
                               shown[i] = [uuid |-> v.uuid, date |-> v.visit_date,
                                           diagnosis |-> v.diagnosis,
                                           prescribed_medications |-> v.prescribed_medications,
                                           notes |-> v.notes]
                    /\ \A i, j \in 1..Len(shown) :
                           i < j => DayOf(shown[i].date) >= DayOf(shown[j].date)
                    /\ (mine = {} => shown = <<>>)

\* the detail of a patient with visits on several dates, while the other
\* patient has visits too
C22_Witness ==
    /\ last.op = "get-patient"
    /\ last.status = 200
    /\ Len(last.body.visits) >= 3
    /\ last.body.visits[1].date # last.body.visits[Len(last.body.visits)].date
    /\ \E v \in visits : v.patient_id # last.req.id

----------------------------------------------------------------------------
(* Properties of the data routes (SpecData), 3 *)

\* C25: in every reachable state, every visit whose parent patient exists has
\* the created_by of that patient.
C25_VisitOwnerIsParentOwner ==
    \A v \in visits : \A p \in patients :
        p.uuid = v.patient_id => v.created_by = p.created_by

\* a visit stands under its patient, whose row was just rewritten by an update,
\* while the other user holds a patient too
C25_Witness ==
    /\ last.op = "put-patient"
    /\ last.status = 200
    /\ \E v \in visits : \E p \in patients :
           p.uuid = v.patient_id /\ p.uuid = last.req.id /\ p.name = last.req.body.name
    /\ \E p \in patients : p.created_by # last.caller

\* C27: in every reachable state, also after a patient was deleted, the
\* patient_id of every visit names a patient that exists.
C27_VisitsHaveParent ==
    \A v \in visits : \E p \in patients : p.uuid = v.patient_id

----------------------------------------------------------------------------
(* Properties of partial updates (SpecPut) *)

\* C30: PUT /api/patients/:uuid with name, gender and date_of_birth but without
\* idNumber or without contact is not answered 400; on a patient of the caller
\* it is answered 200 (unless the idNumber given collides) and the stored
\* id_number, respectively contact, becomes null.
C30_OmittedFieldsBecomeNull ==
    [][(/\ last'.op = "put-patient"
        /\ last'.caller # Null
        /\ ~Falsy(last'.req.body.name)
        /\ ~Falsy(last'.req.body.gender)
        /\ ~Falsy(last'.req.body.date_of_birth)
        /\ (last'.req.body.idNumber = Undefined \/ last'.req.body.contact = Undefined)) =>
           /\ last'.status # 400
           /\ \A p \in patients :
                  (p.uuid = last'.req.id /\ p.created_by = last'.caller) =>
                      /\ ~DupIdNumber(patients, OrNull(last'.req.body.idNumber), p.uuid)
                             => last'.status = 200
                      /\ last'.status = 200 =>
                             \E r \in patients' :
                                 /\ r.uuid = p.uuid
                                 /\ r.name = last'.req.body.name
                                 /\ last'.req.body.idNumber = Undefined => r.id_number = Null
                                 /\ last'.req.body.contact = Undefined => r.contact = Null
                                 /\ last'.body.patient.id_number = r.id_number
                                 /\ last'.body.patient.contact = r.contact]_vars

\* an update without idNumber and contact was answered 200 and the row, created
\* with both, holds null in both
C30_Witness ==
    /\ last.op = "put-patient"
    /\ last.status = 200
    /\ last.req.body.idNumber = Undefined
    /\ last.req.body.contact = Undefined
    /\ \E r \in patients :
           r.uuid = last.req.id /\ r.id_number = Null /\ r.contact = Null

----------------------------------------------------------------------------
(* Properties of sessions across logout (SpecSession) *)

\* C28: a token the server issued is accepted by the gate at every time before
\* its issuance time plus TokenLifetime, whatever logouts, logins and
\* registrations happened in between; a logout changes no row of the store and
\* no token, only the cookie of the client that logged out.
C28_TokenOutlivesLogout ==
    [][/\ (/\ last'.op \in ProtectedOps
           /\ last'.cookie.kind = "jwt"
           /\ last'.cookie.sig = Mac(last'.cookie.claims, tokenSecretKey)
           /\ last'.at < last'.cookie.claims.iat + TokenLifetime) =>
              /\ last'.status = 200
              /\ last'.caller = last'.cookie.claims.uuid
       /\ last'.op = "logout" =>
              /\ UNCHANGED <<users, patients, visits>>
              /\ jar'["c2"] = jar["c2"]
              /\ jar["c2"].kind = "jwt" =>
                     verifyToken(jar["c2"], now').pass = verifyToken(jar["c2"], now).pass]_vars

\* the copy of a token is accepted after its holder logged out and time passed
C28_Witness ==
    /\ last.op = "check-token"
    /\ last.status = 200
    /\ last.cookie.kind = "jwt"
    /\ last.cookie = jar["c2"]
    /\ jar["c1"].kind = "absent"
    /\ last.at > last.cookie.claims.iat

----------------------------------------------------------------------------
(* Properties of requests in flight (SpecRace, SpecFail) *)

\* C26: under every interleaving, a PUT of a patient or of a visit answered 200
\* carries in its body the target row, holding the field values the request
\* submitted.
C26_PutEchoesSubmitted ==
    /\ (last.op = "put-patient" /\ last.status = 200) =>
           /\ "patient" \in DOMAIN last.body
           /\ last.body.patient.uuid = last.req.id
           /\ last.body.patient.name = last.req.body.name
           /\ last.body.patient.id_number = OrNull(last.req.body.idNumber)
           /\ last.body.patient.date_of_birth = last.req.body.date_of_birth
           /\ last.body.patient.gender = last.req.body.gender
           /\ last.body.patient.contact = OrNull(last.req.body.contact)
    /\ (last.op = "put-visit" /\ last.status = 200) =>
           /\ "visit" \in DOMAIN last.body
           /\ last.body.visit.uuid = last.req.id
           /\ last.body.visit.visit_date = last.req.body.visit_date
           /\ last.body.visit.diagnosis = last.req.body.diagnosis
           /\ last.body.visit.prescribed_medications = last.req.body.prescribed_medications
           /\ last.body.visit.notes = OrNull(last.req.body.notes)

\* the sum of the visit counts of the rows of visitsPerWeek
RECURSIVE WeekSum(_)
WeekSum(rows) ==
    IF rows = <<>> THEN 0 ELSE rows[1].visits + WeekSum(Tail(rows))

\* C29: in every dashboard response, also one computed while other requests
\* create or delete patients and visits, recentVisits has at most
\* min(RecentLimit, totalVisits) rows and the counts of visitsPerWeek sum to at
\* most totalVisits.
C29_DashboardBounds ==
    (last.op = "dashboard" /\ last.status = 200) =>
        /\ Len(last.body.recentVisits) <= Min(RecentLimit, last.body.totalVisits)
        /\ WeekSum(last.body.visitsPerWeek) <= last.body.totalVisits

\* the statuses of the error taxonomy
StatusTaxonomy == {200, 201, 400, 401, 403, 404, 409, 500}

\* the bodies that tell nothing about the failure or the request
GenericBodies ==
    {Msg("We encountered an error. Please try again"),
     Msg("We encountered an error. Please retry"),
     Msg("We encountered a problem. Please retry"),
     [error |-> "Internal Server Error"]}

\* the number of db.execute calls on the longest path of a handler
Statements(op) ==
    CASE op \in {"put-patient", "post-visit", "put-visit"} -> 3
      [] op \in {"delete-patient", "delete-visit"} -> 2
      [] op = "dashboard" -> 4
      [] OTHER -> 1

\* C24: every request in flight is answered, once, with a status of the
\* taxonomy: a request leaves its slot exactly in the step that records its
\* response, it stands at one of the statements of its handler and every
\* statement either answers or moves it to the next, and it does leave.  A
\* statement that fails is answered 500 with a generic body, changes no row,
\* and leaves the other request in flight where it was.
C24_EveryRequestAnswered ==
    /\ [][/\ last' # last => last'.status \in StatusTaxonomy
          /\ \A s \in Slots :
                 /\ (calls[s] # Idle /\ calls'[s] = Idle) =>
                        /\ last'.op = calls[s].op
                        /\ last'.req = calls[s].req
                        /\ last'.status \in StatusTaxonomy
                        /\ \A o \in Slots \ {s} : calls'[o] = calls[o]
                 /\ (calls[s] # Idle /\ calls'[s] # Idle /\ calls'[s] # calls[s]) =>
                        /\ calls'[s].pc = calls[s].pc + 1
                        /\ calls'[s].pc <= Statements(calls[s].op)
                        /\ last' = last
                 /\ (calls[s] = Idle /\ calls'[s] # Idle) =>
                        /\ calls'[s].pc = 1
                        /\ last' = last
                 /\ Fail(s) =>
                        /\ last'.status = 500
                        /\ last'.body \in GenericBodies
                        /\ last'.req = calls[s].req
                        /\ UNCHANGED <<users, patients, visits>>
                        /\ \A o \in Slots \ {s} : calls'[o] = calls[o]]_vars
    /\ \A s \in Slots : (calls[s] # Idle) ~> (calls[s] = Idle)

\* the third statement of an update failed, after its UPDATE ran, while another
\* request was in flight
C24_Witness ==
    /\ last.op = "put-patient"
    /\ last.status = 500
    /\ Len(last.queries) = 2
    /\ \E s \in Slots : calls[s] # Idle /\ calls[s].pc > 1
    /\ \E p \in patients : p.uuid = last.req.id /\ p.name = last.req.body.name

====
